---- MODULE Spec2Model ----
(***************************************************************************)
(* VOLE-in-the-Head prover and verifier of the vole-zk-prover crate:       *)
(* the dense/sparse linear algebra (src/lib.rs), the two-seed commitment   *)
(* (src/vecccom), the RAAA code and the subspace VOLE (src/subspacevole)   *)
(* and the Prover / Verifier of src/actors.rs.                             *)
(*                                                                         *)
(* Field elements are integers modulo P. Vectors are sequences; the code's *)
(* 0-based indices are kept as values and shifted by one when a sequence   *)
(* is indexed. BLAKE3 is a free constructor (an injective, collision-free  *)
(* hash); a hash that seeds a challenge generator is a digest drawn by a   *)
(* lazily sampled random oracle.                                           *)
(***************************************************************************)
EXTENDS Integers, Sequences, FiniteSets, TLC

(***************************************************************************)
(* Parameters                                                              *)
(***************************************************************************)
\* Field modulus (PrimeFieldModulus), scaled down to a small prime.
P == 5
\* Block length of the linear code and number of small VOLEs.
NUM_VOLES == 4
\* Repetition factor of the default code.
DefaultQ == 2
\* The prover's random generator has MaxRng possible outcomes.
MaxRng == 2
\* The random oracle answers each query with one of MaxDigest digests.
MaxDigest == 2
\* The public input of the test circuit ranges over 1..MaxInput.
MaxInput == 1
\* The verifier is called at most MaxVerifyCalls times on the delivered pair.
MaxVerifyCalls == 2
\* A seed under test is one of 0 .. MaxSeed - 1.
MaxSeed == 4
\* A small VOLE under test has 1 .. MaxVoleLength rows.
MaxVoleLength == 3
\* A u32 field of an R1CS header is modelled with HeaderBits bits, and usize
\* with twice as many (32 and 64 in the native build).
HeaderBits == 3
\* The u32 length given to random_interleave_permutations is modelled with
\* LenBits bits.
LenBits == 3
\* A prover whose fields a caller assigns is given at most MaxMkvoleCalls
\* calls of mkvole.
MaxMkvoleCalls == 2
\* A dense vector under test against a sparse matrix has MaxDense elements.
MaxDense == 3
\* A matrix under test has MaxRows rows.
MaxRows == 2
\* The three permutations of a code under test come from runs of the thread
\* generator in which at most MaxDrawn removal draws, in total, are non-zero.
MaxDrawn == 3

F == 0 .. (P - 1)
Digests == 0 .. (MaxDigest - 1)
Seeds == 0 .. (MaxSeed - 1)

Min(a, b) == IF a < b THEN a ELSE b

(***************************************************************************)
(* Option and Result                                                       *)
(***************************************************************************)
None == << >>
Some(x) == << x >>
IsSome(o) == Len(o) = 1
Unwrap(o) == o[1]

Ok(x) == [ok |-> TRUE, val |-> x, err |-> ""]
Err(msg) == [ok |-> FALSE, val |-> << >>, err |-> msg]

(***************************************************************************)
(* Field and dense linear algebra (src/lib.rs)                             *)
(***************************************************************************)
FAdd(a, b) == (a + b) % P
FSub(a, b) == (a - b + P) % P
FMul(a, b) == (a * b) % P
FNeg(a) == (P - a) % P

\* Iterator::collect and Vec::push in a loop: the sequence with every element
\* computed once.
Collect(s) == SubSeq(s, 1, Len(s))

\* impl Mul<&FVec> for &FVec: pointwise product over the zipped prefix.
VMul(a, b) == Collect([i \in 1 .. Min(Len(a), Len(b)) |-> FMul(a[i], b[i])])
\* impl Add<&FVec> for &FVec
VAdd(a, b) == Collect([i \in 1 .. Min(Len(a), Len(b)) |-> FAdd(a[i], b[i])])
\* impl Sub<&FVec> for &FVec
VSub(a, b) == Collect([i \in 1 .. Min(Len(a), Len(b)) |-> FSub(a[i], b[i])])

RECURSIVE SumSeq(_)
SumSeq(s) == IF Len(s) = 0 THEN 0 ELSE FAdd(s[1], SumSeq(Tail(s)))

\* DotProduct::dot: sum of the products of the zipped prefix.
dot(a, b) == SumSeq(VMul(a, b))

\* Faulty variant of sparse_dot: the n-th pair is multiplied with the n-th
\* element of the vector.
sparse_dot_positional(vec, rhs) ==
    SumSeq(Collect([n \in 1 .. Len(rhs) |-> FMul(vec[n], rhs[n][2])]))

\* DotProduct::sparse_dot: fold over the (index, value) pairs of the sparse row.
RECURSIVE sparse_dot_from(_, _, _, _)
sparse_dot_from(vec, rhs, acc, n) ==
    IF n > Len(rhs) THEN acc
    ELSE sparse_dot_from(vec, rhs, FAdd(acc, FMul(vec[rhs[n][1] + 1], rhs[n][2])), n + 1)
sparse_dot(vec, rhs) == sparse_dot_from(vec, rhs, 0, 1)

\* SparseVec::to_fvec: a zero vector of len elements, then vec[idx] = val for
\* the pairs in their order.
RECURSIVE to_fvec_from(_, _, _)
to_fvec_from(sparse, vec, n) ==
    IF n > Len(sparse) THEN vec
    ELSE to_fvec_from(sparse, [vec EXCEPT ![sparse[n][1] + 1] = sparse[n][2]], n + 1)
to_fvec(sparse, len) == to_fvec_from(sparse, Collect([i \in 1 .. len |-> 0]), 1)

\* impl PartialEq for FVec: all() over the zipped prefix.
FVecEq(a, b) == \A i \in 1 .. Min(Len(a), Len(b)) : a[i] = b[i]

\* impl PartialEq for FMatrix: all() over the zipped rows, compared as FVec.
FMatrixEq(a, b) == \A i \in 1 .. Min(Len(a), Len(b)) : FVecEq(a[i], b[i])

\* FVec::scalar_mul
scalar_mul(v, rhs) == Collect([i \in 1 .. Len(v) |-> FMul(v[i], rhs)])
\* FVec::zero_pad
zero_pad(v, len) == v \o [i \in 1 .. len |-> 0]

\* FMatrix::transpose: inner_len is the length of the first row.
transpose(m) ==
    Collect([i \in 1 .. Len(m[1]) |-> Collect([j \in 1 .. Len(m) |-> m[j][i]])])
\* FMatrix::scalar_mul
MScalarMul(m, rhs) == Collect([i \in 1 .. Len(m) |-> scalar_mul(m[i], rhs)])
\* impl Add<&FMatrix> for &FMatrix
MAdd(a, b) == Collect([i \in 1 .. Min(Len(a), Len(b)) |-> VAdd(a[i], b[i])])
\* impl Sub<&FMatrix> for &FMatrix
\* Faulty variant of the matrix subtraction: only the first rows are subtracted.
MSub_first_row(a, b) == Collect([i \in 1 .. Min(1, Min(Len(a), Len(b))) |-> VSub(a[i], b[i])])
MSub(a, b) == Collect([i \in 1 .. Min(Len(a), Len(b)) |-> VSub(a[i], b[i])])
\* impl Mul<&FMatrix> for &FVec: one dot product per row of rhs.
VecMulMatrix(v, m) == Collect([i \in 1 .. Len(m) |-> dot(v, m[i])])
\* impl Mul<&SparseFMatrix> for &FVec
VecMulSparse(v, m) == Collect([i \in 1 .. Len(m) |-> sparse_dot(v, m[i])])

\* Rust slice v[from..to] with 0-based bounds.
Slice(v, from, to) == Collect([i \in 1 .. (to - from) |-> v[from + i]])

RECURSIVE Flatten(_)
Flatten(m) == IF Len(m) = 0 THEN << >> ELSE m[1] \o Flatten(Tail(m))

(***************************************************************************)
(* Stream cipher generators (rand_chacha), BLAKE3                          *)
(***************************************************************************)
\* The j-th word of the ChaCha stream keyed by seed. Seed 0 keys the
\* all-zero stream.
ChaChaWord(seed, j) == seed * (j * j + 3 * j + 1) + seed * seed * (j + 2)

\* T::random(&mut r): the j-th field element sampled from the stream.
RandomField(seed, j) == (ChaChaWord(seed, j) \div 3) % P

\* blake3::hash as a free constructor.
Blake3(x) == << "blake3", x >>

(***************************************************************************)
(* Seed commitment (src/vecccom/mod.rs)                                    *)
(***************************************************************************)
expand_seed_to_field_vec(seed, num_outputs) ==
    Collect([j \in 1 .. num_outputs |-> RandomField(seed, j)])

commit_seeds(seed0, seed1) == Blake3(<< Blake3(seed0), Blake3(seed1) >>)

commit_seed_commitments(comms) == Blake3(comms)

proof_for_revealed_seed(other_seed) == Blake3(other_seed)

\* Faulty variant of reconstruct_commitment: the index bit is not read.
reconstruct_commitment_unordered(revealed_seed, revealed_seed_idx, proof) ==
    Blake3(<< Blake3(revealed_seed), proof >>)

reconstruct_commitment(revealed_seed, revealed_seed_idx, proof) ==
    LET digest_of_revealed == Blake3(revealed_seed)
        preimage == IF revealed_seed_idx THEN << proof, digest_of_revealed >>
                    ELSE << digest_of_revealed, proof >>
    IN  Blake3(preimage)

\* Faulty variant of verify_proof_of_revealed_seed: nothing is compared.
verify_proof_of_revealed_seed_any(commitment, revealed_seed, revealed_seed_idx, proof) ==
    TRUE

verify_proof_of_revealed_seed(commitment, revealed_seed, revealed_seed_idx, proof) ==
    reconstruct_commitment(revealed_seed, revealed_seed_idx, proof) = commitment

(***************************************************************************)
(* RAAA code (src/subspacevole/mod.rs)                                     *)
(* A code is [permutations |-> three <<forward, backward>> pairs, q |-> _].*)
(***************************************************************************)
\* RAAACode::repeat: num_repeats copies of the input.
RECURSIVE repeat(_, _)
repeat(input, num_repeats) ==
    IF num_repeats = 0 THEN << >> ELSE input \o repeat(input, num_repeats - 1)

\* Faulty variant of repeat_extended: section 0 is not added to the others.
repeat_extended_plain(input, q) == input

\* RAAACode::repeat_extended: section 0, then section 0 + section i.
repeat_extended(input, q) ==
    LET len == Len(input)
        section_len == len \div q
        zeroth_section == Slice(input, 0, section_len)
    IN  Collect([j \in 1 .. len |->
                    IF j <= section_len THEN zeroth_section[j]
                    ELSE FAdd(zeroth_section[((j - 1) % section_len) + 1], input[j])])

\* RAAACode::repeat_extended_inverse: section 0, then section i - section 0.
repeat_extended_inverse(input, q) ==
    LET len == Len(input)
        section_len == len \div q
        zeroth_section == Slice(input, 0, section_len)
    IN  Collect([j \in 1 .. len |->
                    IF j <= section_len THEN zeroth_section[j]
                    ELSE FSub(input[j], zeroth_section[((j - 1) % section_len) + 1])])

\* RAAACode::interleave: out[permutation[i]] = input[i], in the order of i.
RECURSIVE interleave_from(_, _, _, _)
interleave_from(input, permutation, out, i) ==
    IF i > Len(input) THEN out
    ELSE interleave_from(input, permutation,
                         [out EXCEPT ![permutation[i] + 1] = input[i]], i + 1)
interleave(input, permutation) ==
    interleave_from(input, permutation, Collect([j \in 1 .. Len(input) |-> 0]), 1)

\* RAAACode::accumulate: running prefix sum.
RECURSIVE accumulate_from(_, _, _)
accumulate_from(input, out, i) ==
    IF i > Len(input) THEN out
    ELSE accumulate_from(input, Append(out, FAdd(input[i], out[i - 1])), i + 1)
\* Faulty variant of accumulate: the running sum starts one above the first
\* entry.
accumulate_from_one(input) == accumulate_from(input, << FAdd(input[1], 1) >>, 2)

accumulate(input) == accumulate_from(input, << input[1] >>, 2)

\* RAAACode::accumulate_inverse: successive differences.
accumulate_inverse(input) ==
    Collect([i \in 1 .. Len(input) |-> IF i = 1 THEN input[1] ELSE FSub(input[i], input[i - 1])])

\* Vec::remove(idx) with a 0-based idx.
RemoveAt(s, idx) == SubSeq(s, 1, idx) \o SubSeq(s, idx + 2, Len(s))

\* rng.gen_range(0..i) for the i-th draw of the generator keyed by seed.
gen_range(seed, i) == ChaChaWord(seed, i) % i

\* Faulty variant of the loop of random_interleave_permutations: backward
\* records the removed value at the position of the step.
RECURSIVE random_interleave_loop_copied(_, _, _, _, _)
random_interleave_loop_copied(remove_indices, avail_indices, forward, backward, i) ==
    IF i >= Len(remove_indices) THEN << forward, backward >>
    ELSE LET removed_value == avail_indices[remove_indices[i + 1] + 1]
         IN  random_interleave_loop_copied(remove_indices,
                                           RemoveAt(avail_indices, remove_indices[i + 1]),
                                           Append(forward, removed_value),
                                           [backward EXCEPT ![i + 1] = removed_value],
                                           i + 1)

\* RAAACode::random_interleave_permutations: the draws are taken for
\* i = 1..len and then reversed; the loop removes one available index per step.
RECURSIVE random_interleave_loop(_, _, _, _, _)
random_interleave_loop(remove_indices, avail_indices, forward, backward, i) ==
    IF i >= Len(remove_indices) THEN << forward, backward >>
    ELSE LET removed_value == avail_indices[remove_indices[i + 1] + 1]
         IN  random_interleave_loop(remove_indices,
                                    RemoveAt(avail_indices, remove_indices[i + 1]),
                                    Append(forward, removed_value),
                                    [backward EXCEPT ![removed_value + 1] = i],
                                    i + 1)
random_interleave_permutations(len, seed) ==
    LET draws == [i \in 1 .. len |-> gen_range(seed, i)]
        remove_indices == [i \in 1 .. len |-> draws[len + 1 - i]]
    IN  random_interleave_loop(remove_indices, Collect([i \in 1 .. len |-> i - 1]),
                               << >>, Collect([i \in 1 .. len |-> 0]), 0)

\* The draws rng.gen_range(0..i), i = 1..len, that a generator seeded from
\* the thread generator can produce.
ThreadRngDraws(len) ==
    {d \in [1 .. len -> 0 .. (len - 1)] : \A i \in 1 .. len : d[i] < i}

NonZeroDraws(d) == Cardinality({i \in DOMAIN d : d[i] # 0})

\* RAAACode::random_interleave_permutations(len, None) for one outcome of the
\* draws.
random_interleave_permutations_none(len, d) ==
    random_interleave_loop(Collect([i \in 1 .. len |-> d[len + 1 - i]]),
                           Collect([i \in 1 .. len |-> i - 1]),
                           << >>, Collect([i \in 1 .. len |-> 0]), 0)

\* RAAACode::rand_with_parameters: the codes it can return.
rand_with_parameters(block_size, q) ==
    {[permutations |-> << random_interleave_permutations_none(block_size, d0),
                          random_interleave_permutations_none(block_size, d1),
                          random_interleave_permutations_none(block_size, d2) >>,
      q |-> q] :
        << d0, d1, d2 >> \in
            {t \in ThreadRngDraws(block_size) \X ThreadRngDraws(block_size)
                       \X ThreadRngDraws(block_size) :
                NonZeroDraws(t[1]) + NonZeroDraws(t[2]) + NonZeroDraws(t[3]) <= MaxDrawn}}

\* RAAACode::rand_default: the three interleave seeds are the digests of three
\* fixed strings; seed i + 1 stands for the digest of the i-th string.
rand_default ==
    [permutations |-> [i \in 1 .. 3 |-> random_interleave_permutations(NUM_VOLES, i)],
     q |-> DefaultQ]

\* LinearCode::n and LinearCode::k
CodeN(code) == Len(code.permutations[1][1])
CodeK(code) == CodeN(code) \div code.q

\* LinearCode::encode
encode(code, vec) ==
    LET repeated == repeat(vec, code.q)
        in0 == interleave(repeated, code.permutations[1][1])
        acc0 == accumulate(in0)
        in1 == interleave(acc0, code.permutations[2][1])
        acc1 == accumulate(in1)
        in2 == interleave(acc1, code.permutations[3][1])
    IN  accumulate(in2)

\* LinearCode::encode_extended: multiplication by the invertible matrix Tc.
encode_extended(code, vec) ==
    LET repeated == repeat_extended(vec, code.q)
        in0 == interleave(repeated, code.permutations[1][1])
        acc0 == accumulate(in0)
        in1 == interleave(acc0, code.permutations[2][1])
        acc1 == accumulate(in1)
        in2 == interleave(acc1, code.permutations[3][1])
    IN  accumulate(in2)

\* Faulty variant of mul_vec_by_extended_inverse: the forward permutations are
\* applied again.
mul_vec_by_extended_inverse_forward(code, u) ==
    LET acc2_inv == accumulate_inverse(u)
        in2_inv == interleave(acc2_inv, code.permutations[3][1])
        acc1_inv == accumulate_inverse(in2_inv)
        in1_inv == interleave(acc1_inv, code.permutations[2][1])
        acc0_inv == accumulate_inverse(in1_inv)
        in0_inv == interleave(acc0_inv, code.permutations[1][1])
    IN  repeat_extended_inverse(in0_inv, code.q)

\* LinearCode::mul_vec_by_extended_inverse: multiplication by Tc^-1.
mul_vec_by_extended_inverse(code, u) ==
    LET acc2_inv == accumulate_inverse(u)
        in2_inv == interleave(acc2_inv, code.permutations[3][2])
        acc1_inv == accumulate_inverse(in2_inv)
        in1_inv == interleave(acc1_inv, code.permutations[2][2])
        acc0_inv == accumulate_inverse(in1_inv)
        in0_inv == interleave(acc0_inv, code.permutations[1][2])
    IN  repeat_extended_inverse(in0_inv, code.q)

\* The asserts of check_parity: the length is a multiple of q, and q > 1.
check_parity_aborts(code, len) == len % code.q # 0 \/ code.q <= 1

\* Faulty variant of check_parity: the forward permutations are applied again.
check_parity_forward(code, putative_codeword) ==
    LET acc2_inv == accumulate_inverse(putative_codeword)
        in2_inv == interleave(acc2_inv, code.permutations[3][1])
        acc1_inv == accumulate_inverse(in2_inv)
        in1_inv == interleave(acc1_inv, code.permutations[2][1])
        acc0_inv == accumulate_inverse(in1_inv)
        should_be_repeated == interleave(acc0_inv, code.permutations[1][1])
        section_len == Len(should_be_repeated) \div code.q
        zeroth_section == Slice(should_be_repeated, 0, section_len)
    IN  \A i \in 1 .. (code.q - 1) :
            Slice(should_be_repeated, section_len * i, section_len * i + section_len)
                = zeroth_section

\* Faulty variant of check_parity: only the first entry of every section is
\* compared.
check_parity_first_entry(code, putative_codeword) ==
    LET acc2_inv == accumulate_inverse(putative_codeword)
        in2_inv == interleave(acc2_inv, code.permutations[3][2])
        acc1_inv == accumulate_inverse(in2_inv)
        in1_inv == interleave(acc1_inv, code.permutations[2][2])
        acc0_inv == accumulate_inverse(in1_inv)
        should_be_repeated == interleave(acc0_inv, code.permutations[1][2])
        section_len == Len(should_be_repeated) \div code.q
    IN  \A i \in 1 .. (code.q - 1) :
            should_be_repeated[section_len * i + 1] = should_be_repeated[1]

\* RAAACode::check_parity: the stages are inverted and the q sections of the
\* result are compared with section 0.
check_parity(code, putative_codeword) ==
    LET acc2_inv == accumulate_inverse(putative_codeword)
        in2_inv == interleave(acc2_inv, code.permutations[3][2])
        acc1_inv == accumulate_inverse(in2_inv)
        in1_inv == interleave(acc1_inv, code.permutations[2][2])
        acc0_inv == accumulate_inverse(in1_inv)
        should_be_repeated == interleave(acc0_inv, code.permutations[1][2])
        section_len == Len(should_be_repeated) \div code.q
        zeroth_section == Slice(should_be_repeated, 0, section_len)
    IN  \A i \in 1 .. (code.q - 1) :
            Slice(should_be_repeated, section_len * i, section_len * i + section_len)
                = zeroth_section

\* LinearCode::check_parity_batch
check_parity_batch(code, putative_codewords) ==
    IF \A i \in 1 .. Len(putative_codewords) : check_parity(code, putative_codewords[i])
    THEN Ok(<< >>)
    ELSE Err("Parity check failure")

batch_encode(code, matrix) == Collect([i \in 1 .. Len(matrix) |-> encode(code, matrix[i])])
batch_encode_extended(code, matrix) ==
    Collect([i \in 1 .. Len(matrix) |-> encode_extended(code, matrix[i])])
mul_matrix_by_extended_inverse(code, old_us) ==
    Collect([i \in 1 .. Len(old_us) |-> mul_vec_by_extended_inverse(code, old_us[i])])

\* Faulty variant of get_prover_correction: the rows are split without the
\* multiplication by Tc^-1.
get_prover_correction_uninverted(code, old_us) ==
    LET start_idx == CodeK(code)
    IN  << Collect([i \in 1 .. Len(old_us) |-> Slice(old_us[i], 0, start_idx)]),
           Collect([i \in 1 .. Len(old_us) |->
                       Slice(old_us[i], start_idx, Len(old_us[i]))]) >>

\* LinearCode::get_prover_correction: (U, C), the first k and the remaining
\* entries of every row of old_us * Tc^-1.
get_prover_correction(code, old_us) ==
    LET start_idx == CodeK(code)
        full_size == mul_matrix_by_extended_inverse(code, old_us)
    IN  << [i \in 1 .. Len(full_size) |-> Slice(full_size[i], 0, start_idx)],
           [i \in 1 .. Len(full_size) |->
                Slice(full_size[i], start_idx, Len(full_size[i]))] >>

\* Faulty variant of correct_verifier_qs: the correction is added to Q.
correct_verifier_qs_added(code, old_qs, deltas, correction) ==
    LET l == Len(old_qs[1])
        correction_len == Len(correction[1])
        zero_len == l - correction_len
        zeroes_cons_c == [i \in 1 .. Len(old_qs) |->
                             [j \in 1 .. zero_len |-> 0] \o correction[i]]
        times_extended_generator == batch_encode_extended(code, zeroes_cons_c)
        times_deltas == Collect([i \in 1 .. Len(times_extended_generator) |->
                                    VMul(times_extended_generator[i], deltas)])
    IN  Collect([i \in 1 .. Min(Len(old_qs), Len(times_deltas)) |->
                    VAdd(old_qs[i], times_deltas[i])])

\* LinearCode::correct_verifier_qs: Q - encode_extended(0 || C) * deltas, by rows.
correct_verifier_qs(code, old_qs, deltas, correction) ==
    LET l == Len(old_qs[1])
        correction_len == Len(correction[1])
        zero_len == l - correction_len
        zeroes_cons_c == [i \in 1 .. Len(old_qs) |->
                             [j \in 1 .. zero_len |-> 0] \o correction[i]]
        times_extended_generator == batch_encode_extended(code, zeroes_cons_c)
        times_deltas == Collect([i \in 1 .. Len(times_extended_generator) |->
                                    VMul(times_extended_generator[i], deltas)])
    IN  Collect([i \in 1 .. Min(Len(old_qs), Len(times_deltas)) |->
                    VSub(old_qs[i], times_deltas[i])])

\* Faulty variant of verify_consistency_check: the encoded U hash is added to
\* the Q hash.
verify_consistency_check_added(code, challenge_hash, consistency_check, deltas, q_cols) ==
    LET u_hash == consistency_check[1]
        v_hash == consistency_check[2]
        q_hash == VecMulMatrix(challenge_hash, q_cols)
        u_hash_x_generator_x_diag_delta == VMul(encode(code, u_hash), deltas)
    IN  IF ~FVecEq(v_hash, VAdd(q_hash, u_hash_x_generator_x_diag_delta))
        THEN Err("Consistency check fail!")
        ELSE Ok(<< >>)

\* Faulty variant of verify_consistency_check: nothing is compared.
verify_consistency_check_ok(code, challenge_hash, consistency_check, deltas, q_cols) ==
    Ok(<< >>)

\* LinearCode::verify_consistency_check
verify_consistency_check(code, challenge_hash, consistency_check, deltas, q_cols) ==
    LET u_hash == consistency_check[1]
        v_hash == consistency_check[2]
        q_hash == VecMulMatrix(challenge_hash, q_cols)
        u_hash_x_generator_x_diag_delta == VMul(encode(code, u_hash), deltas)
    IN  IF ~FVecEq(v_hash, VSub(q_hash, u_hash_x_generator_x_diag_delta))
        THEN Err("Consistency check fail!")
        ELSE Ok(<< >>)

\* Faulty variant of calc_consistency_check: the components are exchanged.
calc_consistency_check_swapped(challenge_hash, u_cols, v_cols) ==
    << VecMulMatrix(challenge_hash, v_cols), VecMulMatrix(challenge_hash, u_cols) >>

\* calc_consistency_check: (challenge_hash * u_cols, challenge_hash * v_cols).
calc_consistency_check(challenge_hash, u_cols, v_cols) ==
    << VecMulMatrix(challenge_hash, u_cols), VecMulMatrix(challenge_hash, v_cols) >>

(***************************************************************************)
(* Small VOLE (smallvole): u = r0 + r1, and u * delta + v = q with         *)
(* delta in {0, 1}. The verifier is given the opened seed and the flag     *)
(* "the seed I do not know is seed 1"; its delta is that flag.             *)
(***************************************************************************)
prover_outputs(seed0, seed1, vole_length) ==
    LET r0 == expand_seed_to_field_vec(seed0, vole_length)
        r1 == expand_seed_to_field_vec(seed1, vole_length)
    IN  [u |-> VAdd(r0, r1), v |-> [j \in 1 .. vole_length |-> FNeg(r1[j])]]

\* Faulty variant of verifier_outputs: q is not negated when delta is 0.
verifier_outputs_unsigned(seed_i_know, idx_i_dont_know, vole_length) ==
    [delta |-> IF idx_i_dont_know THEN 1 ELSE 0,
     q |-> expand_seed_to_field_vec(seed_i_know, vole_length)]

verifier_outputs(seed_i_know, idx_i_dont_know, vole_length) ==
    LET r == expand_seed_to_field_vec(seed_i_know, vole_length)
    IN  IF idx_i_dont_know
        THEN [delta |-> 1, q |-> r]
        ELSE [delta |-> 0, q |-> [j \in 1 .. vole_length |-> FNeg(r[j])]]

(***************************************************************************)
(* Fiat-Shamir challenges (challenges): a transcript is hashed to a digest *)
(* that keys a ChaCha generator; the field elements are its words.         *)
(***************************************************************************)
\* The transcript of the consistency challenge.
ConsistencyTranscript(seed_comm) == << "vole_consistency_check", seed_comm >>
\* The transcript of the Quicksilver challenge.
QuicksilverTranscript(seed_comm, witness_comm) == << seed_comm, witness_comm >>
\* The transcript of the remaining challenges.
OtherTranscript(seed_comm, witness_comm, zkp, vole_length, num_voles, public_openings) ==
    << seed_comm, witness_comm, zkp, vole_length, num_voles, public_openings >>

challenge_from_seed(digest, length) == Collect([j \in 1 .. length |-> RandomField(digest, j)])

calc_quicksilver_challenge(digest) == RandomField(digest, 1)

calc_other_challenges(digest, vole_length, num_voles) ==
    [vith_delta |-> RandomField(digest, 1),
     s_challenge |-> [j \in 1 .. (vole_length \div 2) |-> RandomField(digest, 1 + j)],
     delta_choices |-> [i \in 1 .. num_voles |->
                           (ChaChaWord(digest, 1 + (vole_length \div 2) + i) + 1) % 2]]

(***************************************************************************)
(* R1CS and Quicksilver (zkp)                                              *)
(***************************************************************************)
\* The test circuit out = in * in over the wires [one, out, in]:
\*   in * in = out   and   one * in = in.
\* A sparse row is a sequence of <<column, value>> pairs.
TestCircuit ==
    [a_rows |-> << << <<2, 1>> >>, << <<0, 1>> >> >>,
     b_rows |-> << << <<2, 1>> >>, << <<2, 1>> >> >>,
     c_rows |-> << << <<1, 1>> >>, << <<2, 1>> >> >>,
     public_inputs_indices |-> << 2 >>,
     public_outputs_indices |-> << 1 >>,
     unpadded_wtns_len |-> 3]

\* R1CSWithMetadata::calc_padding_needed: pad the witness to a multiple of k.
calc_padding_needed(circuit, k) ==
    LET pad_len == (k - (circuit.unpadded_wtns_len % k)) % k
    IN  [pad_len |-> pad_len,
         num_padded_wtns_rows |-> (circuit.unpadded_wtns_len + pad_len) \div k]

\* The error a * b - c of every constraint on a flat witness.
ConstraintErrors(circuit, w) ==
    LET a == VecMulSparse(w, circuit.a_rows)
        b == VecMulSparse(w, circuit.b_rows)
        c == VecMulSparse(w, circuit.c_rows)
    IN  [j \in 1 .. Len(a) |-> FSub(FMul(a[j], b[j]), c[j])]

Satisfies(circuit, w) == \A j \in 1 .. Len(circuit.a_rows) : ConstraintErrors(circuit, w)[j] = 0

\* sum over j of challenge^(j-1) * terms[j]
RECURSIVE PowerSum(_, _)
PowerSum(challenge, terms) ==
    IF Len(terms) = 0 THEN 0
    ELSE FAdd(terms[1], FMul(challenge, PowerSum(challenge, Tail(terms))))

\* quicksilver::Prover::from_vith: the values are the witness rows followed by
\* the remaining rows of u1, their MACs are the rows of u2.
QsProverFromVith(u1, u2, witness, circuit) ==
    [u |-> Flatten(witness \o SubSeq(u1, Len(witness) + 1, Len(u1))),
     v |-> Flatten(u2),
     circuit |-> circuit]

\* quicksilver::Prover::prove: the first-order and zero-order coefficients in
\* vith_delta of key_a * key_b - vith_delta * key_c, combined by powers of the
\* challenge.
QsProve(qp, challenge) ==
    LET xa == VecMulSparse(qp.u, qp.circuit.a_rows)
        xb == VecMulSparse(qp.u, qp.circuit.b_rows)
        ma == VecMulSparse(qp.v, qp.circuit.a_rows)
        mb == VecMulSparse(qp.v, qp.circuit.b_rows)
        mc == VecMulSparse(qp.v, qp.circuit.c_rows)
        first == [j \in 1 .. Len(xa) |->
                     FSub(FAdd(FMul(xa[j], mb[j]), FMul(xb[j], ma[j])), mc[j])]
        zeroth == [j \in 1 .. Len(xa) |-> FMul(ma[j], mb[j])]
    IN  << PowerSum(challenge, first), PowerSum(challenge, zeroth) >>

\* quicksilver::Prover::open_public: the (value, mac) pair of every index.
open_public(qp, indices) ==
    [i \in 1 .. Len(indices) |-> << qp.u[indices[i] + 1], qp.v[indices[i] + 1] >>]

\* quicksilver::Verifier::from_vith: the keys are S + vith_delta * witness_comm
\* on the witness rows and S on the remaining rows.
QsVerifierFromVith(s_matrix, vith_delta, witness_comm, circuit) ==
    LET s == Flatten(s_matrix)
        wc == Flatten(witness_comm)
    IN  [q |-> Collect([i \in 1 .. Len(s) |->
                   IF i <= Len(wc) THEN FAdd(s[i], FMul(vith_delta, wc[i])) ELSE s[i]]),
         delta |-> vith_delta,
         circuit |-> circuit]

\* quicksilver::Verifier::verify
QsVerify(qv, challenge, zkp) ==
    LET ka == VecMulSparse(qv.q, qv.circuit.a_rows)
        kb == VecMulSparse(qv.q, qv.circuit.b_rows)
        kc == VecMulSparse(qv.q, qv.circuit.c_rows)
        terms == [j \in 1 .. Len(ka) |->
                     FSub(FMul(ka[j], kb[j]), FMul(qv.delta, kc[j]))]
    IN  IF PowerSum(challenge, terms) = FAdd(FMul(qv.delta, zkp[1]), zkp[2])
        THEN Ok(<< >>)
        ELSE Err("Quicksilver proof failed")

\* quicksilver::Verifier::verify_public: value * vith_delta + mac = key.
OpeningsHold(qv, indices, openings) ==
    /\ Len(openings) = Len(indices)
    /\ \A i \in 1 .. Len(indices) :
           FAdd(FMul(openings[i][1], qv.delta), openings[i][2]) = qv.q[indices[i] + 1]
QsVerifyPublic(qv, public_openings) ==
    IF /\ OpeningsHold(qv, qv.circuit.public_inputs_indices, public_openings.public_inputs)
       /\ OpeningsHold(qv, qv.circuit.public_outputs_indices, public_openings.public_outputs)
    THEN Ok(<< >>)
    ELSE Err("Public opening failed")

\* PublicOpenings::u_values
u_values(public_openings) ==
    [public_inputs |-> [i \in 1 .. Len(public_openings.public_inputs) |->
                           public_openings.public_inputs[i][1]],
     public_outputs |-> [i \in 1 .. Len(public_openings.public_outputs) |->
                            public_openings.public_outputs[i][1]]]

(***************************************************************************)
(* Random oracle: a memo of <<transcript, digest>> pairs, sampled lazily.  *)
(***************************************************************************)
Queried(ro, transcript) == \E e \in ro : e[1] = transcript
\* The digests the oracle may answer with: the recorded one, or any digest.
Answers(ro, transcript) ==
    IF Queried(ro, transcript) THEN {e[2] : e \in {x \in ro : x[1] = transcript}}
    ELSE Digests
Record(ro, transcript, digest) == ro \cup {<< transcript, digest >>}

(***************************************************************************)
(* Prover (src/actors.rs)                                                  *)
(***************************************************************************)
\* Prover::from_witness_and_circuit_unpadded
from_witness_and_circuit_unpadded(witness, circuit) ==
    LET code == rand_default
        k == CodeK(code)
        pp == calc_padding_needed(circuit, k)
        padded == zero_pad(witness, pp.pad_len)
        witness_rows == [i \in 1 .. pp.num_padded_wtns_rows |->
                            Slice(padded, (i - 1) * k, i * k)]
    IN  [num_voles |-> CodeN(code),
         vole_length |-> 2 * (pp.num_padded_wtns_rows + 1),
         code |-> code,
         circuit |-> circuit,
         witness |-> witness_rows,
         seed_commitment |-> None,
         subspace_vole_secrets |-> None,
         witness_comm |-> None]

\* The seed pairs drawn by ThreadRng in outcome r: fill_bytes is called for
\* seeds[i][0] and then seeds[i][1], for i = 0 .. num_voles - 1.
ThreadRngSeeds(r, num_voles) ==
    [i \in 1 .. num_voles |->
        << 1 + r * 2 * num_voles + 2 * (i - 1), 2 + r * 2 * num_voles + 2 * (i - 1) >>]

\* Prover::mkvole on prover p with the drawn seed pairs and the digest of the
\* consistency transcript: the prover after the call and the returned value.
mkvole(p, seeds, digest) ==
    LET seed_commitments == [i \in 1 .. p.num_voles |-> commit_seeds(seeds[i][1], seeds[i][2])]
        vole_outputs == [i \in 1 .. p.num_voles |->
                            prover_outputs(seeds[i][1], seeds[i][2], p.vole_length)]
        seed_comm == commit_seed_commitments(seed_commitments)
        u_prime_cols == [i \in 1 .. p.num_voles |-> vole_outputs[i].u]
        v_cols == [i \in 1 .. p.num_voles |-> vole_outputs[i].v]
        u_prime_rows == transpose(u_prime_cols)
        v_rows == transpose(v_cols)
        corrected == get_prover_correction(p.code, u_prime_rows)
        new_u_rows == corrected[1]
        correction == corrected[2]
        witness_comm == MSub(p.witness, Slice(new_u_rows, 0, Len(p.witness)))
        p1 == [p EXCEPT !.witness_comm = Some(witness_comm)]
        challenge_hash == challenge_from_seed(digest, p.vole_length)
        consistency_check ==
            calc_consistency_check(challenge_hash, transpose(new_u_rows), v_cols)
        u_len == Len(new_u_rows)
        v_len == Len(v_rows)
        half_u_len == u_len \div 2
        half_v_len == v_len \div 2
    IN  IF p.num_voles % p.code.q # 0
        THEN [prover |-> p1, result |-> Err("invalid num_voles param")]
        ELSE IF u_len % 2 # 0
        THEN [prover |-> p1, result |-> Err("Number of u's rows must be even")]
        ELSE IF v_len % 2 # 0
        THEN [prover |-> p1, result |-> Err("Number of v's rows must be even")]
        ELSE [prover |-> [p1 EXCEPT
                            !.seed_commitment = Some(seed_comm),
                            !.subspace_vole_secrets =
                                Some([seeds |-> seeds,
                                      u1 |-> Slice(new_u_rows, 0, half_u_len),
                                      u2 |-> Slice(new_u_rows, half_u_len, u_len),
                                      v1 |-> Slice(v_rows, 0, half_v_len),
                                      v2 |-> Slice(v_rows, half_v_len, v_len)])],
              result |-> Ok([seed_comm |-> seed_comm,
                             witness_comm |-> witness_comm,
                             consistency_check |-> consistency_check,
                             subspace_vole_correction |-> correction])]

\* Faulty variant of s_matrix_with_consistency_proof: the proof leaves
\* vith_delta out.
s_matrix_with_consistency_proof_unscaled(svs, vith_delta, challenge) ==
    << MAdd(MScalarMul(svs.u1, vith_delta), svs.u2),
       VecMulMatrix(challenge, transpose(MAdd(svs.v1, svs.v2))) >>

\* Prover::s_matrix_with_consistency_proof, on the secrets svs.
s_matrix_with_consistency_proof(svs, vith_delta, challenge) ==
    LET s == MAdd(MScalarMul(svs.u1, vith_delta), svs.u2)
        proof == VecMulMatrix(challenge,
                              transpose(MAdd(MScalarMul(svs.v1, vith_delta), svs.v2)))
    IN  << s, proof >>

\* Faulty variant of OpenedSeed: the other seed of the pair is opened.
OpenedSeed_flipped(svs, delta_choices, i) == svs.seeds[i][(1 - delta_choices[i]) + 1]

\* The seed of pair i that Prover::prove opens.
OpenedSeed(svs, delta_choices, i) == svs.seeds[i][delta_choices[i] + 1]
\* The seed of pair i whose hash Prover::prove gives as the opening proof.
HiddenSeed(svs, delta_choices, i) == svs.seeds[i][(1 - delta_choices[i]) + 1]

\* The Quicksilver prover that Prover::prove builds from the secrets.
ProveQs(p) ==
    QsProverFromVith(Unwrap(p.subspace_vole_secrets).u1,
                     Unwrap(p.subspace_vole_secrets).u2, p.witness, p.circuit)
\* The public openings that Prover::prove emits.
ProvePublicOpenings(p) ==
    [public_inputs |-> open_public(ProveQs(p), p.circuit.public_inputs_indices),
     public_outputs |-> open_public(ProveQs(p), p.circuit.public_outputs_indices)]
\* The transcript Prover::prove hashes for the remaining challenges.
ProveOtherTranscript(p, qs_digest) ==
    OtherTranscript(Unwrap(p.seed_commitment), Unwrap(p.witness_comm),
                    QsProve(ProveQs(p), calc_quicksilver_challenge(qs_digest)),
                    p.vole_length, p.num_voles, ProvePublicOpenings(p))

\* Faulty variant of err_uncompleted: an empty proof instead of an error.
err_uncompleted_ok == Ok(<< >>)

\* The error of Prover::prove on a prover without a completed VOLE.
err_uncompleted == Err("VOLE must be completed before this step")

\* Prover::prove with the digests of its two transcripts: the returned value.
\* The prover itself is left as it is.
prove(p, qs_digest, other_digest) ==
    IF \/ ~IsSome(p.subspace_vole_secrets)
       \/ ~IsSome(p.seed_commitment)
       \/ ~IsSome(p.witness_comm)
    THEN err_uncompleted
    ELSE
    LET svs == Unwrap(p.subspace_vole_secrets)
        zkp == QsProve(ProveQs(p), calc_quicksilver_challenge(qs_digest))
        challenges == calc_other_challenges(other_digest, p.vole_length, p.num_voles)
        sm == s_matrix_with_consistency_proof(svs, challenges.vith_delta,
                                              challenges.s_challenge)
    IN  Ok([zkp |-> zkp,
            s_matrix |-> sm[1],
            s_consistency_check |-> sm[2],
            public_openings |-> ProvePublicOpenings(p),
            seed_openings |->
                [seed_opens |-> [i \in 1 .. Len(svs.seeds) |->
                                    OpenedSeed(svs, challenges.delta_choices, i)],
                 seed_proofs |-> [i \in 1 .. Len(svs.seeds) |->
                                     proof_for_revealed_seed(
                                         HiddenSeed(svs, challenges.delta_choices, i))]]])

(***************************************************************************)
(* Verifier (src/actors.rs)                                                *)
(***************************************************************************)
\* Verifier::from_circuit
from_circuit(circuit) ==
    LET code == rand_default
        pp == calc_padding_needed(circuit, CodeK(code))
    IN  [circuit |-> circuit,
         num_voles |-> CodeN(code),
         vole_length |-> 2 * (pp.num_padded_wtns_rows + 1),
         code |-> code,
         subspace_vole_deltas |-> None,
         vith_delta |-> None]

\* The transcript Verifier::verify hashes for the remaining challenges.
VerifyOtherTranscript(v, cnp) ==
    OtherTranscript(cnp.commitment.seed_comm, cnp.commitment.witness_comm,
                    cnp.proof.zkp, v.vole_length, v.num_voles,
                    cnp.proof.public_openings)

\* The S-matrix check of Verifier::verify: lhs != rhs.
SMatrixCheckFails(v, proof, challenges, deltas, new_q_rows) ==
    LET half_len == v.vole_length \div 2
        q1 == Slice(new_q_rows, 0, half_len)
        q2 == Slice(new_q_rows, half_len, v.vole_length)
        encoded == batch_encode(v.code, proof.s_matrix)
        sgc_diag_delta == Collect([i \in 1 .. Len(encoded) |-> VMul(encoded[i], deltas)])
        lhs == VecMulMatrix(challenges.s_challenge,
                            transpose(MAdd(MScalarMul(q1, challenges.vith_delta), q2)))
        rhs == VAdd(proof.s_consistency_check,
                    VecMulMatrix(challenges.s_challenge, transpose(sgc_diag_delta)))
    IN  ~FVecEq(lhs, rhs)

\* Faulty variant of SeedCommitmentMismatch: the commitment is never compared.
SeedCommitmentMismatch_never(v, cnp, challenges) == FALSE

\* The seed loop and the seed commitment test of Verifier::verify: the hash of
\* the reconstructed per-column commitments differs from seed_comm.
SeedCommitmentMismatch(v, cnp, challenges) ==
    LET recs == [i \in 1 .. v.num_voles |->
                    reconstruct_commitment(cnp.proof.seed_openings.seed_opens[i],
                                           challenges.delta_choices[i] # 0,
                                           cnp.proof.seed_openings.seed_proofs[i])]
    IN  Blake3(recs) # cnp.commitment.seed_comm

\* Faulty variant of VerifyQuicksilver: the Quicksilver proof is not verified.
VerifyQuicksilver_skip_zk(v, cnp, challenges, qs_digest) ==
    LET zk_verifier == QsVerifierFromVith(cnp.proof.s_matrix, challenges.vith_delta,
                                          cnp.commitment.witness_comm, v.circuit)
        zk_public == QsVerifyPublic(zk_verifier, cnp.proof.public_openings)
    IN  IF ~zk_public.ok THEN zk_public
        ELSE Ok(u_values(cnp.proof.public_openings))

\* Faulty variant of VerifyQuicksilver: the public openings are not verified.
VerifyQuicksilver_skip_public(v, cnp, challenges, qs_digest) ==
    LET zk_verifier == QsVerifierFromVith(cnp.proof.s_matrix, challenges.vith_delta,
                                          cnp.commitment.witness_comm, v.circuit)
        zk == QsVerify(zk_verifier, calc_quicksilver_challenge(qs_digest), cnp.proof.zkp)
    IN  IF ~zk.ok THEN zk
        ELSE Ok(u_values(cnp.proof.public_openings))

\* The last step of Verifier::verify: the Quicksilver proof, the public
\* openings, and the returned public values.
VerifyQuicksilver(v, cnp, challenges, qs_digest) ==
    LET zk_verifier == QsVerifierFromVith(cnp.proof.s_matrix, challenges.vith_delta,
                                          cnp.commitment.witness_comm, v.circuit)
        zk == QsVerify(zk_verifier, calc_quicksilver_challenge(qs_digest), cnp.proof.zkp)
        zk_public == QsVerifyPublic(zk_verifier, cnp.proof.public_openings)
    IN  IF ~zk.ok THEN zk
        ELSE IF ~zk_public.ok THEN zk_public
        ELSE Ok(u_values(cnp.proof.public_openings))

\* Verifier::verify with the digests of its three transcripts.
verify(v, cnp, other_digest, consistency_digest, qs_digest) ==
    LET comm == cnp.commitment
        proof == cnp.proof
        challenges == calc_other_challenges(other_digest, v.vole_length, v.num_voles)
        vole_outs == Collect([i \in 1 .. v.num_voles |->
                                 verifier_outputs(proof.seed_openings.seed_opens[i],
                                                  challenges.delta_choices[i] = 0,
                                                  v.vole_length)])
        deltas == Collect([i \in 1 .. v.num_voles |-> vole_outs[i].delta])
        q_cols == Collect([i \in 1 .. v.num_voles |-> Collect(vole_outs[i].q)])
        q_rows == transpose(q_cols)
        new_q_rows == correct_verifier_qs(v.code, q_rows, deltas,
                                          comm.subspace_vole_correction)
        challenge_hash == challenge_from_seed(consistency_digest, v.vole_length)
        consistency == verify_consistency_check(v.code, challenge_hash,
                                                comm.consistency_check, deltas,
                                                transpose(new_q_rows))
    IN  IF SeedCommitmentMismatch(v, cnp, challenges)
        THEN Err("Seed commitment is not a commitment to the seeds")
        ELSE IF ~consistency.ok THEN consistency
        ELSE IF SMatrixCheckFails(v, proof, challenges, deltas, new_q_rows)
        THEN Err("failed to verify S matrix")
        ELSE VerifyQuicksilver(v, cnp, challenges, qs_digest)

\* RAAACode::encode_extended on a vector of len entries stops at an assert:
\* repeat_extended needs len % q = 0 and interleave needs len = n.
encode_extended_aborts(code, len) == len % code.q # 0 \/ len # CodeN(code)

\* RAAACode::encode on vec stops at the assert of interleave (the repeated
\* vector must have n entries) or at input.0[0] of accumulate.
encode_aborts(code, vec) == Len(vec) * code.q # CodeN(code)

\* The seed loop of Verifier::verify indexes seed_opens[i] and seed_proofs[i]
\* for every i < num_voles: a shorter vector is an index out of bounds.
seed_loop_aborts(v, proof) ==
    \/ Len(proof.seed_openings.seed_opens) < v.num_voles
    \/ Len(proof.seed_openings.seed_proofs) < v.num_voles

\* LinearCode::correct_verifier_qs stops at correction.0[0] of an empty
\* correction, at l - correction_len below zero, at correction.0[i] of a missing
\* row, and in encode_extended of a row that is not n long.
correct_verifier_qs_aborts(code, old_qs, correction) ==
    \/ Len(correction) = 0
    \/ Len(correction[1]) > Len(old_qs[1])
    \/ Len(correction) < Len(old_qs)
    \/ \E i \in 1 .. Len(old_qs) :
           encode_extended_aborts(code, (Len(old_qs[1]) - Len(correction[1]))
                                            + Len(correction[i]))

\* The S-matrix check of Verifier::verify stops in batch_encode of a row that
\* is not k long and at self.0[0] of the transpose of an empty matrix.
s_matrix_check_aborts(v, proof) ==
    \/ Len(proof.s_matrix) = 0
    \/ \E i \in 1 .. Len(proof.s_matrix) : encode_aborts(v.code, proof.s_matrix[i])

\* Verifier::verify does not return: it stops at a failed assert or an index
\* out of bounds before any of its return statements is reached.
verify_aborts(v, cnp, other_digest, consistency_digest) ==
    LET comm == cnp.commitment
        proof == cnp.proof
        challenges == calc_other_challenges(other_digest, v.vole_length, v.num_voles)
        vole_outs == Collect([i \in 1 .. v.num_voles |->
                                 verifier_outputs(proof.seed_openings.seed_opens[i],
                                                  challenges.delta_choices[i] = 0,
                                                  v.vole_length)])
        deltas == Collect([i \in 1 .. v.num_voles |-> vole_outs[i].delta])
        q_rows == transpose(Collect([i \in 1 .. v.num_voles |-> Collect(vole_outs[i].q)]))
        new_q_rows == correct_verifier_qs(v.code, q_rows, deltas,
                                          comm.subspace_vole_correction)
        challenge_hash == challenge_from_seed(consistency_digest, v.vole_length)
    IN  \/ seed_loop_aborts(v, proof)
        \/ /\ ~SeedCommitmentMismatch(v, cnp, challenges)
           /\ \/ correct_verifier_qs_aborts(v.code, q_rows, comm.subspace_vole_correction)
              \/ encode_aborts(v.code, comm.consistency_check[1])
              \/ /\ s_matrix_check_aborts(v, proof)
                 /\ verify_consistency_check(v.code, challenge_hash, comm.consistency_check,
                                             deltas, transpose(new_q_rows)).ok

\* Faulty variant of verifier_after_verify: the VitH delta is kept.
verifier_after_verify_keeps_delta(v, challenges) ==
    [v EXCEPT !.vith_delta = Some(challenges.vith_delta)]

\* The Verifier after Verifier::verify: verify borrows &self and assigns no
\* field.
verifier_after_verify(v, challenges) == v

(***************************************************************************)
(* Witnesses of the test circuit                                           *)
(***************************************************************************)
\* The satisfying witness [one, out, in] of the public input.
HonestWitness(input) == << 1, FMul(input, input), input >>
\* Entry pos (0-based) of w replaced by w + 1; pos = Len(w) is no entry and
\* leaves the witness as it is.
MutateWitness(w, pos) ==
    [j \in 1 .. Len(w) |-> IF j = pos + 1 THEN FAdd(w[j], 1) ELSE w[j]]

(***************************************************************************)
(* Changes made to a (commitment, proof) pair between prover and verifier  *)
(***************************************************************************)
NoTamper == [kind |-> "none", i |-> 0, x |-> 0]

\* Entry i of a sequence replaced by x.
ReplaceAt(s, i, x) == [j \in 1 .. Len(s) |-> IF j = i THEN x ELSE s[j]]
\* Component c (1 = value, 2 = mac) of opening i increased by one.
BumpOpening(openings, i, c) ==
    ReplaceAt(openings, i,
              IF c = 1 THEN << FAdd(openings[i][1], 1), openings[i][2] >>
              ELSE << openings[i][1], FAdd(openings[i][2], 1) >>)

\* The changes that can be made to the pair cnp whose hidden seeds are hidden.
Tampers(cnp, hidden) ==
    {[kind |-> k, i |-> i, x |-> 0] :
             k \in {"public_inputs.value", "public_inputs.mac"},
             i \in 1 .. Len(cnp.proof.public_openings.public_inputs)}
    \cup {[kind |-> k, i |-> i, x |-> 0] :
             k \in {"public_outputs.value", "public_outputs.mac"},
             i \in 1 .. Len(cnp.proof.public_openings.public_outputs)}
    \cup UNION {{[kind |-> "seed_opens", i |-> i, x |-> x] : x \in {0, hidden[i]}} :
                   i \in 1 .. Len(cnp.proof.seed_openings.seed_opens)}
    \cup {[kind |-> "consistency_check.0", i |-> i, x |-> x] :
             i \in 1 .. Len(cnp.commitment.consistency_check[1]), x \in 1 .. (P - 1)}
    \cup {[kind |-> "s_consistency_check.element", i |-> i, x |-> 0] :
             i \in 1 .. Len(cnp.proof.s_consistency_check)}
    \cup {[kind |-> "s_consistency_check.len", i |-> 0, x |-> x] :
             x \in (0 .. (Len(cnp.proof.s_consistency_check) + 1))
                      \ {Len(cnp.proof.s_consistency_check)}}
    \cup {[kind |-> "seed_opens.len", i |-> 0, x |-> x] :
             x \in {0, Len(cnp.proof.seed_openings.seed_opens) - 1}}
    \cup {[kind |-> "seed_proofs.len", i |-> 0, x |-> x] :
             x \in {Len(cnp.proof.seed_openings.seed_proofs) - 1}}
    \cup {[kind |-> "subspace_vole_correction.len", i |-> 0, x |-> x] :
             x \in {0, Len(cnp.commitment.subspace_vole_correction) - 1}}
    \cup {[kind |-> "subspace_vole_correction.row", i |-> i, x |-> 0] :
             i \in {1, Len(cnp.commitment.subspace_vole_correction)}}
    \cup {[kind |-> "s_matrix.row", i |-> i, x |-> 0] : i \in {1}}
    \cup {[kind |-> k, i |-> 0, x |-> 0] :
             k \in {"consistency_check.0.len", "consistency_check.1.len"}}

\* The pair cnp after the change t.
ApplyTamper(cnp, t) ==
    LET po == cnp.proof.public_openings
        scc == cnp.proof.s_consistency_check
    IN  CASE t.kind = "public_inputs.value" ->
                 [cnp EXCEPT !.proof.public_openings.public_inputs =
                                 BumpOpening(po.public_inputs, t.i, 1)]
          [] t.kind = "public_inputs.mac" ->
                 [cnp EXCEPT !.proof.public_openings.public_inputs =
                                 BumpOpening(po.public_inputs, t.i, 2)]
          [] t.kind = "public_outputs.value" ->
                 [cnp EXCEPT !.proof.public_openings.public_outputs =
                                 BumpOpening(po.public_outputs, t.i, 1)]
          [] t.kind = "public_outputs.mac" ->
                 [cnp EXCEPT !.proof.public_openings.public_outputs =
                                 BumpOpening(po.public_outputs, t.i, 2)]
          [] t.kind = "seed_opens" ->
                 [cnp EXCEPT !.proof.seed_openings.seed_opens[t.i] = t.x]
          [] t.kind = "consistency_check.0" ->
                 [cnp EXCEPT !.commitment.consistency_check[1][t.i] = FAdd(@, t.x)]
          [] t.kind = "s_consistency_check.element" ->
                 [cnp EXCEPT !.proof.s_consistency_check[t.i] = FAdd(@, 1)]
          [] t.kind = "s_consistency_check.len" ->
                 [cnp EXCEPT !.proof.s_consistency_check =
                                 [j \in 1 .. t.x |-> IF j <= Len(scc) THEN scc[j] ELSE 0]]
          [] t.kind = "seed_opens.len" ->
                 [cnp EXCEPT !.proof.seed_openings.seed_opens = SubSeq(@, 1, t.x)]
          [] t.kind = "seed_proofs.len" ->
                 [cnp EXCEPT !.proof.seed_openings.seed_proofs = SubSeq(@, 1, t.x)]
          [] t.kind = "subspace_vole_correction.len" ->
                 [cnp EXCEPT !.commitment.subspace_vole_correction = SubSeq(@, 1, t.x)]
          [] t.kind = "subspace_vole_correction.row" ->
                 [cnp EXCEPT !.commitment.subspace_vole_correction[t.i] =
                                 SubSeq(@, 1, Len(@) - 1)]
          [] t.kind = "s_matrix.row" ->
                 [cnp EXCEPT !.proof.s_matrix[t.i] = SubSeq(@, 1, Len(@) - 1)]
          [] t.kind = "consistency_check.0.len" ->
                 [cnp EXCEPT !.commitment.consistency_check[1] = SubSeq(@, 1, Len(@) - 1)]
          [] t.kind = "consistency_check.1.len" ->
                 [cnp EXCEPT !.commitment.consistency_check[2] = SubSeq(@, 1, Len(@) - 1)]
          [] OTHER -> cnp

(***************************************************************************)
(* State                                                                   *)
(***************************************************************************)
VARIABLES
    prover,          \* the Prover
    verifier,        \* the Verifier
    mutated_at,      \* the witness entry replaced by w + 1, or the length if none
    ro_consistency,  \* oracle memo of the consistency challenge
    ro_quicksilver,  \* oracle memo of the Quicksilver challenge
    ro_other,        \* oracle memo of the remaining challenges
    mkvole_calls,    \* number of calls of mkvole so far
    mkvole_result,   \* Option: the value the last mkvole returned
    prove_result,    \* Option: the value the last prove returned
    prove_digests,   \* <<quicksilver, other>> digests the last prove read
    prove_current,   \* the last prove ran after the last mkvole
    tamper,          \* the change made to the delivered pair
    cnp,             \* Option: the CommitAndProof handed to the verifier
    verify_digests,  \* <<other, consistency, quicksilver>> digests of verify
    verify_result,   \* Option: the value the last verify returned
    verify_calls,    \* number of calls of verify so far
    verify_aborted,  \* the last verify stopped without returning
    bench            \* the unit under test and its values, outside the protocol

\* The variables of the prover-verifier protocol.
protocol_vars ==
    << prover, verifier, mutated_at, ro_consistency, ro_quicksilver, ro_other,
       mkvole_calls, mkvole_result, prove_result, prove_digests, prove_current,
       tamper, cnp, verify_digests, verify_result, verify_calls, verify_aborted >>

vars == << protocol_vars, bench >>

\* No unit is under test.
NoBench == [unit |-> "none"]

\* commit_and_prove calls mkvole once on a prover; so does the model.
MkvoleCalls == 1

\* The protocol before its first step, for a public input and a witness entry.
ProtocolInit(input, pos) ==
        /\ prover = from_witness_and_circuit_unpadded(
                        MutateWitness(HonestWitness(input), pos), TestCircuit)
        /\ verifier = from_circuit(TestCircuit)
        /\ mutated_at = pos
        /\ ro_consistency = {}
        /\ ro_quicksilver = {}
        /\ ro_other = {}
        /\ mkvole_calls = 0
        /\ mkvole_result = None
        /\ prove_result = None
        /\ prove_digests = << >>
        /\ prove_current = FALSE
        /\ tamper = NoTamper
        /\ cnp = None
        /\ verify_digests = << >>
        /\ verify_result = None
        /\ verify_calls = 0
        /\ verify_aborted = FALSE

Init ==
    /\ \E input \in 1 .. MaxInput, pos \in 0 .. TestCircuit.unpadded_wtns_len :
           ProtocolInit(input, pos)
    /\ bench = NoBench

\* The protocol at rest while a unit is under test.
ProtocolIdle == ProtocolInit(1, TestCircuit.unpadded_wtns_len)

\* The seed commitment mkvole computes from the drawn seed pairs.
SeedCommOf(seeds) ==
    commit_seed_commitments([i \in 1 .. Len(seeds) |-> commit_seeds(seeds[i][1], seeds[i][2])])

\* prover.mkvole()
Mkvole ==
    /\ ~IsSome(cnp)
    /\ mkvole_calls < MkvoleCalls
    /\ \E r \in 0 .. (MaxRng - 1) :
        LET seeds == ThreadRngSeeds(r, prover.num_voles)
            transcript == ConsistencyTranscript(SeedCommOf(seeds))
        IN  \E digest \in Answers(ro_consistency, transcript) :
                LET out == mkvole(prover, seeds, digest)
                IN  /\ prover' = out.prover
                    /\ mkvole_result' = Some(out.result)
                    /\ ro_consistency' = Record(ro_consistency, transcript, digest)
    /\ mkvole_calls' = mkvole_calls + 1
    /\ prove_current' = FALSE
    /\ UNCHANGED << verifier, mutated_at, ro_quicksilver, ro_other, prove_result,
                    prove_digests, tamper, cnp, verify_digests, verify_result,
                    verify_calls, verify_aborted, bench >>

\* prover.prove(), while the prover still holds the pair.
Prove ==
    /\ ~IsSome(cnp)
    /\ IF \/ ~IsSome(prover.subspace_vole_secrets)
          \/ ~IsSome(prover.seed_commitment)
          \/ ~IsSome(prover.witness_comm)
       THEN /\ prove_result' = Some(prove(prover, 0, 0))
            /\ prove_digests' = << >>
            /\ prove_current' = FALSE
            /\ UNCHANGED << ro_quicksilver, ro_other >>
       ELSE LET qs_transcript == QuicksilverTranscript(Unwrap(prover.seed_commitment),
                                                       Unwrap(prover.witness_comm))
            IN  \E qs_digest \in Answers(ro_quicksilver, qs_transcript) :
                    LET other_transcript == ProveOtherTranscript(prover, qs_digest)
                    IN  \E other_digest \in Answers(ro_other, other_transcript) :
                            /\ prove_result' = Some(prove(prover, qs_digest, other_digest))
                            /\ prove_digests' = << qs_digest, other_digest >>
                            /\ prove_current' = TRUE
                            /\ ro_quicksilver' = Record(ro_quicksilver, qs_transcript, qs_digest)
                            /\ ro_other' = Record(ro_other, other_transcript, other_digest)
    /\ UNCHANGED << prover, verifier, mutated_at, ro_consistency, mkvole_calls,
                    mkvole_result, tamper, cnp, verify_digests, verify_result,
                    verify_calls, verify_aborted, bench >>

\* The pair CommitAndProof { commitment, proof } of the last mkvole and prove.
HonestCnp == [commitment |-> Unwrap(mkvole_result).val, proof |-> Unwrap(prove_result).val]
\* The challenges the last prove read.
ProveChallenges ==
    calc_other_challenges(prove_digests[2], prover.vole_length, prover.num_voles)
\* The seeds the last prove kept hidden.
HiddenSeeds ==
    [i \in 1 .. prover.num_voles |->
        HiddenSeed(Unwrap(prover.subspace_vole_secrets), ProveChallenges.delta_choices, i)]

\* The prover holds a pair made by prove after the last mkvole.
HoldsPair ==
    /\ ~IsSome(cnp)
    /\ prove_current
    /\ IsSome(mkvole_result) /\ Unwrap(mkvole_result).ok
    /\ IsSome(prove_result) /\ Unwrap(prove_result).ok

\* The pair reaches the verifier as it is.
Deliver ==
    /\ HoldsPair
    /\ tamper' = NoTamper
    /\ cnp' = Some(HonestCnp)
    /\ UNCHANGED << prover, verifier, mutated_at, ro_consistency, ro_quicksilver, ro_other,
                    mkvole_calls, mkvole_result, prove_result, prove_digests,
                    prove_current, verify_digests, verify_result, verify_calls,
                    verify_aborted, bench >>

\* The pair of a prover with an unchanged, satisfying witness reaches the
\* verifier with one change.
Tamper ==
    /\ HoldsPair
    /\ mutated_at = prover.circuit.unpadded_wtns_len
    /\ \E t \in Tampers(HonestCnp, HiddenSeeds) :
           /\ t.kind = "seed_opens" => t.x # HonestCnp.proof.seed_openings.seed_opens[t.i]
           /\ tamper' = t
           /\ cnp' = Some(ApplyTamper(HonestCnp, t))
    /\ UNCHANGED << prover, verifier, mutated_at, ro_consistency, ro_quicksilver, ro_other,
                    mkvole_calls, mkvole_result, prove_result, prove_digests,
                    prove_current, verify_digests, verify_result, verify_calls,
                    verify_aborted, bench >>

\* verifier.verify(&cnp): the call returns a Result, or stops without one.
Verify ==
    /\ IsSome(cnp)
    /\ verify_calls < MaxVerifyCalls
    /\ LET c == Unwrap(cnp)
           other_transcript == VerifyOtherTranscript(verifier, c)
           consistency_transcript == ConsistencyTranscript(c.commitment.seed_comm)
           qs_transcript == QuicksilverTranscript(c.commitment.seed_comm,
                                                  c.commitment.witness_comm)
       IN  \E other_digest \in Answers(ro_other, other_transcript),
              consistency_digest \in Answers(ro_consistency, consistency_transcript),
              qs_digest \in Answers(ro_quicksilver, qs_transcript) :
               LET aborted == verify_aborts(verifier, c, other_digest, consistency_digest)
                   challenges == calc_other_challenges(other_digest, verifier.vole_length,
                                                       verifier.num_voles)
               IN  /\ verify_aborted' = aborted
                   /\ verify_result' =
                          IF aborted THEN None
                          ELSE Some(verify(verifier, c, other_digest, consistency_digest,
                                           qs_digest))
                   /\ verifier' = verifier_after_verify(verifier, challenges)
                   /\ verify_digests' = << other_digest, consistency_digest, qs_digest >>
                   /\ ro_other' = Record(ro_other, other_transcript, other_digest)
                   /\ ro_consistency' =
                          Record(ro_consistency, consistency_transcript, consistency_digest)
                   /\ ro_quicksilver' = Record(ro_quicksilver, qs_transcript, qs_digest)
    /\ verify_calls' = verify_calls + 1
    /\ UNCHANGED << prover, mutated_at, mkvole_calls, mkvole_result,
                    prove_result, prove_digests, prove_current, tamper, cnp, bench >>

Next == Mkvole \/ Prove \/ Deliver \/ Tamper \/ Verify

Spec == Init /\ [][Next]_vars

(***************************************************************************)
(* Properties                                                              *)
(***************************************************************************)
\* The flat, padded witness the prover was built from.
ProverWitness == Flatten(prover.witness)
\* The witness values at the public wires of the circuit.
PublicValues(circuit, w) ==
    [public_inputs |-> [i \in 1 .. Len(circuit.public_inputs_indices) |->
                           w[circuit.public_inputs_indices[i] + 1]],
     public_outputs |-> [i \in 1 .. Len(circuit.public_outputs_indices) |->
                            w[circuit.public_outputs_indices[i] + 1]]]
Verified == IsSome(verify_result)
Accepted == Verified /\ Unwrap(verify_result).ok
RejectedWith(msg) ==
    Verified /\ ~Unwrap(verify_result).ok /\ Unwrap(verify_result).err = msg
\* The challenges verify derived, and the deltas of its small VOLEs.
VerifyChallenges ==
    calc_other_challenges(verify_digests[1], verifier.vole_length, verifier.num_voles)
VerifyDeltas ==
    [i \in 1 .. verifier.num_voles |->
        IF VerifyChallenges.delta_choices[i] = 0 THEN 1 ELSE 0]
\* The last prove returned a proof of the current commitment.
Proved == prove_current /\ IsSome(prove_result) /\ Unwrap(prove_result).ok

C2_ProveBeforeMkvole ==
    (IsSome(prove_result) /\ ~(IsSome(mkvole_result) /\ Unwrap(mkvole_result).ok))
        => /\ ~Unwrap(prove_result).ok
           /\ Unwrap(prove_result).err = "VOLE must be completed before this step"
           /\ Unwrap(prove_result).val = << >>
C2_Witness == IsSome(prove_result) /\ ~IsSome(mkvole_result)

\* The witness was changed in one entry and violates a constraint.
WrongWitness ==
    /\ mutated_at < prover.circuit.unpadded_wtns_len
    /\ ~Satisfies(prover.circuit, ProverWitness)
\* The constraint errors of the prover's witness combined by the powers of the
\* Quicksilver challenge that verify derived.
CombinedConstraintError ==
    PowerSum(calc_quicksilver_challenge(verify_digests[3]),
             ConstraintErrors(prover.circuit, ProverWitness))

PublicValueTampers == {"public_inputs.value", "public_outputs.value"}
PublicMacTampers == {"public_inputs.mac", "public_outputs.mac"}

C5_SeedTamperRejected ==
    (Verified /\ tamper.kind = "seed_opens")
        => RejectedWith("Seed commitment is not a commitment to the seeds")
C5_Witness ==
    /\ tamper.kind = "seed_opens" /\ tamper.x = HiddenSeeds[tamper.i]
    /\ RejectedWith("Seed commitment is not a commitment to the seeds")

\* The codeword of consistency_check.0 of the delivered pair differs from the
\* codeword of the prover's at a column whose delta is non-zero.
CodewordDiffersUnderDelta ==
    \E col \in 1 .. verifier.num_voles :
        /\ VerifyDeltas[col] # 0
        /\ encode(verifier.code, Unwrap(cnp).commitment.consistency_check[1])[col]
               # encode(verifier.code, HonestCnp.commitment.consistency_check[1])[col]

C7_SConsistencyCheckRejected ==
    (Verified /\ tamper.kind \in {"s_consistency_check.element", "s_consistency_check.len"})
        => ~Unwrap(verify_result).ok

\* C8: after prove has returned a proof the prover holds no secrets.
C8_SecretsDropped == Proved => ~IsSome(prover.subspace_vole_secrets)

\* C9: a pair whose commitment differs from the prover's in one of the four
\* outputs of mkvole gives different transcripts for the Quicksilver challenge
\* and for the remaining challenges.
C9_TranscriptBindsCommitment ==
    (IsSome(cnp) /\ Unwrap(cnp).commitment # HonestCnp.commitment)
        => LET c == Unwrap(cnp).commitment
               h == HonestCnp.commitment
           IN  /\ QuicksilverTranscript(c.seed_comm, c.witness_comm)
                      # QuicksilverTranscript(h.seed_comm, h.witness_comm)
               /\ VerifyOtherTranscript(verifier, [commitment |-> c, proof |-> HonestCnp.proof])
                      # VerifyOtherTranscript(verifier, HonestCnp)

\* C10: the proof opens, for every column i, the seed seeds[i][delta_choices[i]]
\* and gives the hash of seeds[i][1 - delta_choices[i]] as its proof; the
\* unopened seed is not among the opened ones.
C10_SeedOpening ==
    Proved =>
        LET openings == Unwrap(prove_result).val.seed_openings
            seeds == Unwrap(prover.subspace_vole_secrets).seeds
            delta_choices == ProveChallenges.delta_choices
        IN  /\ Len(openings.seed_opens) = prover.num_voles
            /\ Len(openings.seed_proofs) = prover.num_voles
            /\ \A i \in 1 .. prover.num_voles :
                   /\ openings.seed_opens[i] = seeds[i][delta_choices[i] + 1]
                   /\ openings.seed_proofs[i] = Blake3(seeds[i][(1 - delta_choices[i]) + 1])
                   /\ \A j \in 1 .. prover.num_voles :
                          openings.seed_opens[j] # seeds[i][(1 - delta_choices[i]) + 1]
C10_Witness ==
    /\ Proved
    /\ \E i, j \in 1 .. prover.num_voles :
           /\ ProveChallenges.delta_choices[i] = 0
           /\ ProveChallenges.delta_choices[j] = 1

VoleInit ==
    /\ ProtocolIdle
    /\ \E s0 \in Seeds, s1 \in Seeds, len \in 1 .. MaxVoleLength, b \in 0 .. 1 :
           bench = [unit |-> "smallvole", seed0 |-> s0, seed1 |-> s1,
                    vole_length |-> len, bit |-> b,
                    prover_out |-> None, verifier_out |-> None]

\* sv.prover_outputs(&seed0, &seed1, vole_length)
VoleProverOutputs ==
    /\ bench.prover_out = None
    /\ bench' = [bench EXCEPT !.prover_out =
                     Some(prover_outputs(bench.seed0, bench.seed1, bench.vole_length))]
    /\ UNCHANGED protocol_vars

\* sv.verifier_outputs(&seed_opens[i], delta_choices[i] == 0, vole_length)
VoleVerifierOutputs ==
    /\ bench.verifier_out = None
    /\ bench' = [bench EXCEPT !.verifier_out =
                     Some(verifier_outputs(IF bench.bit = 0 THEN bench.seed0
                                           ELSE bench.seed1,
                                           bench.bit = 0, bench.vole_length))]
    /\ UNCHANGED protocol_vars

SpecVole ==
    VoleInit /\ [][VoleProverOutputs \/ VoleVerifierOutputs]_vars

\* Both parties of the small VOLE under test have their outputs.
VoleDone == IsSome(bench.prover_out) /\ IsSome(bench.verifier_out)

SeedInit ==
    /\ ProtocolIdle
    /\ \E s0 \in Seeds, s1 \in Seeds :
           bench = [unit |-> "vecccom", seed0 |-> s0, seed1 |-> s1,
                    commitment |-> None, opening |-> None, presented |-> None]

\* commit_seeds(&seed0, &seed1)
SeedCommit ==
    /\ bench.commitment = None
    /\ bench' = [bench EXCEPT !.commitment = Some(commit_seeds(bench.seed0, bench.seed1))]
    /\ UNCHANGED protocol_vars

\* The seed of index bit is opened: proof_for_revealed_seed(&other_seed).
SeedOpen ==
    /\ IsSome(bench.commitment)
    /\ bench.opening = None
    /\ \E b \in 0 .. 1 :
           bench' = [bench EXCEPT !.opening =
                        Some([bit |-> b,
                              seed |-> IF b = 0 THEN bench.seed0 ELSE bench.seed1,
                              proof |-> proof_for_revealed_seed(
                                            IF b = 0 THEN bench.seed1 ELSE bench.seed0)])]
    /\ UNCHANGED protocol_vars

\* verify_proof_of_revealed_seed(&commitment, &revealed_seed, idx, &proof)
SeedVerify ==
    /\ IsSome(bench.opening)
    /\ bench.presented = None
    /\ LET o == Unwrap(bench.opening)
       IN  \E idx \in BOOLEAN, proof \in {o.proof, Blake3(o.seed)} :
               bench' = [bench EXCEPT !.presented =
                            Some([idx |-> idx, proof |-> proof,
                                  reconstructed |->
                                      reconstruct_commitment(o.seed, idx, proof),
                                  verified |->
                                      verify_proof_of_revealed_seed(
                                          Unwrap(bench.commitment), o.seed, idx, proof)])]
    /\ UNCHANGED protocol_vars

SpecSeed ==
    SeedInit /\ [][SeedCommit \/ SeedOpen \/ SeedVerify]_vars

\* The opened seed was presented under its own index bit with the hash of the
\* other seed.
SeedPresentedHonestly ==
    /\ IsSome(bench.presented)
    /\ Unwrap(bench.presented).idx = (Unwrap(bench.opening).bit = 1)
    /\ Unwrap(bench.presented).proof = Unwrap(bench.opening).proof

\* C19: for every seed pair and bit b, the seed s_b presented with index b and
\* the hash of the other seed verifies against commit_seeds(s0, s1), and
\* reconstruct_commitment gives H(H(s0) || H(s1)).
C19_SeedCommitmentOpens ==
    SeedPresentedHonestly =>
        /\ Unwrap(bench.presented).verified
        /\ Unwrap(bench.presented).reconstructed =
               Blake3(<< Blake3(bench.seed0), Blake3(bench.seed1) >>)

C19_Witness ==
    /\ SeedPresentedHonestly
    /\ Unwrap(bench.opening).bit = 1
    /\ bench.seed0 # bench.seed1
    /\ Unwrap(bench.presented).verified

\* C20: for distinct seeds, the opened seed presented with the opposite index
\* bit, or with the hash of itself as proof under either index bit, does not
\* verify.
C20_SeedCommitmentRejects ==
    (IsSome(bench.presented) /\ bench.seed0 # bench.seed1) =>
        LET pr == Unwrap(bench.presented)
            o == Unwrap(bench.opening)
        IN  /\ pr.idx # (o.bit = 1) => ~pr.verified
            /\ pr.proof = Blake3(o.seed) => ~pr.verified

C20_Witness ==
    /\ IsSome(bench.presented)
    /\ bench.seed0 # bench.seed1
    /\ Unwrap(bench.presented).idx # (Unwrap(bench.opening).bit = 1)
    /\ Unwrap(bench.presented).proof = Unwrap(bench.opening).proof
    /\ ~Unwrap(bench.presented).verified

(***************************************************************************)
(* RAAA codes under test: block length NUM_VOLES, every repetition factor  *)
(* dividing it, permutations as rand_with_parameters draws them, and       *)
(* vectors expanded from a seed.                                           *)
(***************************************************************************)
RepetitionFactors == {q \in 1 .. NUM_VOLES : NUM_VOLES % q = 0}

CodesUnderTest == UNION {rand_with_parameters(NUM_VOLES, q) : q \in RepetitionFactors}

\* The permutation moves nothing.
IsIdentity(permutation) == \A i \in 1 .. Len(permutation) : permutation[i] = i - 1

(***************************************************************************)
(* Extended encoder under test (test_extended_encode): y of length n is    *)
(* encoded with encode_extended and mapped back, then the first k entries  *)
(* of y, padded with zeros, are encoded with both encoders.                *)
(***************************************************************************)
ExtendedInit ==
    /\ ProtocolIdle
    /\ \E code \in CodesUnderTest, seed \in Seeds :
           bench = [unit |-> "extended", code |-> code,
                    y |-> expand_seed_to_field_vec(seed, CodeN(code)),
                    extended |-> None, inverted |-> None, padded |-> None]

\* code.encode_extended(&y)
ExtendedEncode ==
    /\ bench.extended = None
    /\ bench' = [bench EXCEPT !.extended = Some(encode_extended(bench.code, bench.y))]
    /\ UNCHANGED protocol_vars

\* code.mul_vec_by_extended_inverse(&extended)
ExtendedInverse ==
    /\ IsSome(bench.extended)
    /\ bench.inverted = None
    /\ bench' = [bench EXCEPT !.inverted =
                     Some(mul_vec_by_extended_inverse(bench.code, Unwrap(bench.extended)))]
    /\ UNCHANGED protocol_vars

\* x = y[0..k]; code.encode(&x) and code.encode_extended(&(x || zeros))
ExtendedPadded ==
    /\ IsSome(bench.inverted)
    /\ bench.padded = None
    /\ LET k == CodeK(bench.code)
           x == Slice(bench.y, 0, k)
       IN  bench' = [bench EXCEPT !.padded =
                        Some([x |-> x,
                              encoded |-> encode(bench.code, x),
                              extended |-> encode_extended(
                                               bench.code,
                                               zero_pad(x, CodeN(bench.code) - k))])]
    /\ UNCHANGED protocol_vars

SpecExtended ==
    ExtendedInit /\ [][ExtendedEncode \/ ExtendedInverse \/ ExtendedPadded]_vars

\* C15: for every RAAA code and every vector y of length n,
\* mul_vec_by_extended_inverse(encode_extended(y)) = y.
C15_ExtendedRoundTrip ==
    IsSome(bench.inverted) => Unwrap(bench.inverted) = bench.y

C15_Witness ==
    /\ IsSome(bench.inverted)
    /\ Unwrap(bench.inverted) = bench.y
    /\ Unwrap(bench.extended) # bench.y
    /\ bench.code.q = DefaultQ
    /\ \A i \in 1 .. 3 : bench.code.permutations[i][1] # bench.code.permutations[i][2]

\* C16: for every RAAA code and every x of length k,
\* encode_extended(x || n - k zeros) = encode(x).
C16_ExtendedExtendsEncode ==
    IsSome(bench.padded) =>
        Unwrap(bench.padded).extended = Unwrap(bench.padded).encoded

C16_Witness ==
    /\ IsSome(bench.padded)
    /\ Unwrap(bench.padded).extended = Unwrap(bench.padded).encoded
    /\ bench.code.q = DefaultQ
    /\ \E j \in 1 .. Len(Unwrap(bench.padded).x) : Unwrap(bench.padded).x[j] # 0
    /\ \E i \in 1 .. 3 : ~IsIdentity(bench.code.permutations[i][1])

(***************************************************************************)
(* Parity check under test (tests check_parity and check_parity_batch): x  *)
(* of length k is encoded, the codeword and a batch of codewords are       *)
(* checked, then one entry of the codeword is changed to every other field *)
(* value and the changed vectors are checked, alone and inside the batch.  *)
(***************************************************************************)
\* The inputs of the batch: one vector of k elements per seed.
BatchInputs(code) ==
    Collect([s \in 1 .. MaxSeed |-> expand_seed_to_field_vec(s - 1, CodeK(code))])

\* codeword.0[position] = value
WithEntry(vec, position, value) == [vec EXCEPT ![position + 1] = value]

\* The vector with a one at position and zeros elsewhere.
UnitVector(len, position) ==
    Collect([j \in 1 .. len |-> IF j = position + 1 THEN 1 ELSE 0])

\* vec is in the image of encode.
IsCodeword(code, vec) ==
    \E x \in [1 .. CodeK(code) -> F] : encode(code, x) = vec

ParityInit ==
    /\ ProtocolIdle
    /\ \E code \in CodesUnderTest :
           bench = [unit |-> "parity", code |-> code,
                    codewords |-> None, checked |-> None, changed |-> None]

\* codewords = input.iter().map(|x| code.encode(x))
ParityEncode ==
    /\ bench.codewords = None
    /\ bench' = [bench EXCEPT !.codewords =
                     Some(batch_encode(bench.code, BatchInputs(bench.code)))]
    /\ UNCHANGED protocol_vars

\* code.check_parity(&codeword) of every codeword and
\* code.check_parity_batch(&codewords); a panic ends the run.
ParityCheck ==
    /\ IsSome(bench.codewords)
    /\ bench.checked = None
    /\ LET codewords == Unwrap(bench.codewords)
       IN  bench' = [bench EXCEPT !.checked =
                        IF check_parity_aborts(bench.code, Len(codewords[1]))
                        THEN Some([aborted |-> TRUE])
                        ELSE Some([aborted |-> FALSE,
                                   accepted |->
                                       Collect([i \in 1 .. Len(codewords) |->
                                                   check_parity(bench.code, codewords[i])]),
                                   batch |-> check_parity_batch(bench.code, codewords)])]
    /\ UNCHANGED protocol_vars

\* codewords[index].0[position] = value, for every value other than the entry;
\* code.check_parity(&codewords[index]) and code.check_parity_batch(&codewords).
ParityCheckChanged ==
    /\ IsSome(bench.checked)
    /\ ~Unwrap(bench.checked).aborted
    /\ bench.changed = None
    /\ \E index \in 1 .. Len(Unwrap(bench.codewords)),
          position \in 0 .. (CodeN(bench.code) - 1) :
           LET codewords == Unwrap(bench.codewords)
               values == F \ {codewords[index][position + 1]}
           IN  bench' = [bench EXCEPT !.changed =
                            Some([index |-> index, position |-> position,
                                  accepted |->
                                      [value \in values |->
                                          check_parity(bench.code,
                                                       WithEntry(codewords[index],
                                                                 position, value))],
                                  batch |->
                                      [value \in values |->
                                          check_parity_batch(
                                              bench.code,
                                              [codewords EXCEPT ![index] =
                                                  WithEntry(codewords[index],
                                                            position, value)])]])]
    /\ UNCHANGED protocol_vars

SpecParity ==
    ParityInit /\ [][ParityEncode \/ ParityCheck \/ ParityCheckChanged]_vars

\* C17: for every RAAA code with q > 1 and every x of k elements,
\* check_parity(encode(x)) is true without a panic, and check_parity_batch of
\* a list of codewords is Ok.
C17_ParityAcceptsCodewords ==
    (IsSome(bench.checked) /\ bench.code.q > 1) =>
        /\ ~Unwrap(bench.checked).aborted
        /\ Len(Unwrap(bench.checked).accepted) = MaxSeed
        /\ \A i \in 1 .. MaxSeed : Unwrap(bench.checked).accepted[i]
        /\ Unwrap(bench.checked).batch.ok

C17_Witness ==
    /\ IsSome(bench.checked)
    /\ bench.code.q = DefaultQ
    /\ ~Unwrap(bench.checked).aborted
    /\ \A i \in 1 .. MaxSeed : Unwrap(bench.checked).accepted[i]
    /\ Unwrap(bench.checked).batch.ok
    /\ \E i \in 1 .. MaxSeed, j \in 1 .. CodeN(bench.code) :
           Unwrap(bench.codewords)[i][j] # 0
    /\ \A i \in 1 .. 3 : ~IsIdentity(bench.code.permutations[i][1])

RandomMatrix(seed, rows, cols) ==
    Collect([i \in 1 .. rows |->
                Collect([j \in 1 .. cols |-> RandomField(seed, (i - 1) * cols + j)])])

CorrectionInit ==
    /\ ProtocolIdle
    /\ \E code \in CodesUnderTest, seed \in Seeds :
           bench = [unit |-> "correction", code |-> code,
                    u_rows |-> RandomMatrix(seed, MaxRows, CodeN(code)),
                    v_rows |-> RandomMatrix(seed + 1, MaxRows, CodeN(code)),
                    deltas |-> expand_seed_to_field_vec(seed + 2, CodeN(code)),
                    q_rows |-> None, prover |-> None, new_qs |-> None]

\* The VOLE correlation of the rows: q = u * delta + v.
CorrectionVole ==
    /\ bench.q_rows = None
    /\ bench' = [bench EXCEPT !.q_rows =
                     Some(Collect([i \in 1 .. Len(bench.u_rows) |->
                                      VAdd(VMul(bench.u_rows[i], bench.deltas),
                                           bench.v_rows[i])]))]
    /\ UNCHANGED protocol_vars

\* (new_us, correction) = code.get_prover_correction(&u_rows)
CorrectionProver ==
    /\ IsSome(bench.q_rows)
    /\ bench.prover = None
    /\ LET out == get_prover_correction(bench.code, bench.u_rows)
       IN  bench' = [bench EXCEPT !.prover =
                        Some([new_us |-> Collect(out[1]), correction |-> Collect(out[2])])]
    /\ UNCHANGED protocol_vars

\* new_qs = code.correct_verifier_qs(&q_rows, &deltas, &correction)
CorrectionVerifier ==
    /\ IsSome(bench.prover)
    /\ bench.new_qs = None
    /\ bench' = [bench EXCEPT !.new_qs =
                     Some(correct_verifier_qs(bench.code, Unwrap(bench.q_rows),
                                              bench.deltas,
                                              Unwrap(bench.prover).correction))]
    /\ UNCHANGED protocol_vars

SpecCorrection ==
    CorrectionInit /\ [][CorrectionVole \/ CorrectionProver \/ CorrectionVerifier]_vars

\* C14: for rows U' and V and a delta vector with Q = U' * diag(delta) + V,
\* (U, C) = get_prover_correction(U') and Q' = correct_verifier_qs(Q, delta, C),
\* every row i satisfies encode(U[i]) * delta + V[i] = Q'[i].
C14_CorrectionYieldsSubspaceVole ==
    IsSome(bench.new_qs) =>
        LET new_us == Unwrap(bench.prover).new_us
            new_qs == Unwrap(bench.new_qs)
        IN  /\ Len(new_us) = Len(bench.u_rows)
            /\ Len(new_qs) = Len(bench.u_rows)
            /\ \A i \in 1 .. Len(bench.u_rows) :
                   /\ Len(new_us[i]) = CodeK(bench.code)
                   /\ VAdd(VMul(encode(bench.code, new_us[i]), bench.deltas),
                           bench.v_rows[i]) = new_qs[i]
                   /\ Len(new_qs[i]) = CodeN(bench.code)

C14_Witness ==
    /\ IsSome(bench.new_qs)
    /\ Len(bench.u_rows) = MaxRows
    /\ bench.code.q = DefaultQ
    /\ Unwrap(bench.new_qs) # Unwrap(bench.q_rows)
    /\ \E j \in 1 .. CodeN(bench.code) : bench.deltas[j] > 1
    /\ \A i \in 1 .. MaxRows :
           \E j \in 1 .. Len(Unwrap(bench.prover).correction[i]) :
               Unwrap(bench.prover).correction[i][j] # 0

(***************************************************************************)
(* Dense vector times sparse matrix under test (test_sparse_vec): the      *)
(* column indices of a row are any arrangement of distinct indices below   *)
(* the length of the vector; row r of the matrix lists the indices of the  *)
(* arrangement from its r-th on, with values sampled from a seed.          *)
(***************************************************************************)
\* The sequences of pairwise distinct indices below len, in any order.
IndexArrangements(len) ==
    UNION {{a \in [1 .. m -> 0 .. (len - 1)] :
               \A i \in 1 .. m, j \in 1 .. m : i # j => a[i] # a[j]} : m \in 0 .. len}

SparseRowOf(indices, seed, r) ==
    Collect([n \in 1 .. (Len(indices) - (r - 1)) |->
                << indices[n + r - 1], RandomField(seed + r, n) >>])

SparseInit ==
    /\ ProtocolIdle
    /\ \E indices \in IndexArrangements(MaxDense), seed \in Seeds :
           bench = [unit |-> "sparse",
                    x |-> expand_seed_to_field_vec(seed, MaxDense),
                    matrix |-> Collect([r \in 1 .. MaxRows |->
                                           SparseRowOf(Collect(indices), seed, r)]),
                    product |-> None, dense |-> None]

\* &x * &matrix
SparseMul ==
    /\ bench.product = None
    /\ bench' = [bench EXCEPT !.product = Some(VecMulSparse(bench.x, bench.matrix))]
    /\ UNCHANGED protocol_vars

\* The rows expanded by to_fvec(len(x)) and x.dot of each of them.
SparseExpand ==
    /\ bench.dense = None
    /\ LET rows == Collect([r \in 1 .. Len(bench.matrix) |->
                               to_fvec(bench.matrix[r], Len(bench.x))])
       IN  bench' = [bench EXCEPT !.dense =
                        Some([rows |-> rows, product |-> VecMulMatrix(bench.x, rows)])]
    /\ UNCHANGED protocol_vars

SpecSparse ==
    SparseInit /\ [][SparseMul \/ SparseExpand]_vars

\* The sum over the pairs (i, v) of a sparse row of x[i] * v.
PairSum(x, row) == SumSeq(Collect([n \in 1 .. Len(row) |-> FMul(x[row[n][1] + 1], row[n][2])]))

\* C21: for a dense vector x and a sparse matrix whose rows list pairwise
\* distinct column indices below len(x) in any order, entry j of x * matrix is
\* the sum over the pairs (i, v) of row j of x[i] * v, and equals the dot
\* product of x with row j expanded by to_fvec(len(x)).
C21_SparseProduct ==
    (IsSome(bench.product) /\ IsSome(bench.dense)) =>
        /\ Len(Unwrap(bench.product)) = Len(bench.matrix)
        /\ Len(Unwrap(bench.dense).product) = Len(bench.matrix)
        /\ \A j \in 1 .. Len(bench.matrix) :
               /\ Unwrap(bench.product)[j] = PairSum(bench.x, bench.matrix[j])
               /\ Unwrap(bench.product)[j] = Unwrap(bench.dense).product[j]
               /\ Len(Unwrap(bench.dense).rows[j]) = Len(bench.x)

C21_Witness ==
    /\ IsSome(bench.product)
    /\ IsSome(bench.dense)
    /\ Len(bench.matrix[1]) = MaxDense
    /\ bench.matrix[1][1][1] > bench.matrix[1][2][1]
    /\ Unwrap(bench.product)[1] # 0
    /\ Unwrap(bench.product) = Unwrap(bench.dense).product
    /\ Unwrap(bench.product)[1] # FMul(bench.x[1], bench.matrix[1][1][2])

(***************************************************************************)
(* Shape of the commitment returned by mkvole (specification Spec)         *)
(***************************************************************************)
\* The last mkvole returned a commitment.
MkvoleOk == IsSome(mkvole_result) /\ Unwrap(mkvole_result).ok
\* The rows of U and V the prover keeps, and the consistency challenge mkvole
\* derived from the seed commitment.
SecretURows ==
    Unwrap(prover.subspace_vole_secrets).u1 \o Unwrap(prover.subspace_vole_secrets).u2
SecretVRows ==
    Unwrap(prover.subspace_vole_secrets).v1 \o Unwrap(prover.subspace_vole_secrets).v2
MkvoleChallengeHash ==
    LET transcript == ConsistencyTranscript(Unwrap(prover.seed_commitment))
        digest == (CHOOSE e \in ro_consistency : e[1] = transcript)[2]
    IN  challenge_from_seed(digest, prover.vole_length)

\* C22 as stated: the consistency_check of the commitment returned by mkvole is
\* (V_hash, U_hash), V_hash = h * V_cols and U_hash = h * U_cols, each of
\* N = num_voles elements.
C22_ConsistencyCheckVThenU ==
    MkvoleOk =>
        LET cc == Unwrap(mkvole_result).val.consistency_check
        IN  /\ cc[1] = VecMulMatrix(MkvoleChallengeHash, transpose(SecretVRows))
            /\ cc[2] = VecMulMatrix(MkvoleChallengeHash, transpose(SecretURows))
            /\ Len(cc[1]) = prover.num_voles
            /\ Len(cc[2]) = prover.num_voles

\* C22: the consistency_check of the commitment returned by mkvole is
\* (U_hash, V_hash) in that order, U_hash = h * U_cols of k elements and
\* V_hash = h * V_cols of N = num_voles elements, for the consistency
\* challenge h of vole_length elements.
C22_ConsistencyCheckUThenV ==
    MkvoleOk =>
        LET cc == Unwrap(mkvole_result).val.consistency_check
        IN  /\ Len(cc) = 2
            /\ Len(MkvoleChallengeHash) = prover.vole_length
            /\ cc[1] = VecMulMatrix(MkvoleChallengeHash, transpose(SecretURows))
            /\ cc[2] = VecMulMatrix(MkvoleChallengeHash, transpose(SecretVRows))
            /\ Len(cc[1]) = CodeK(prover.code)
            /\ Len(cc[2]) = prover.num_voles

C22_Witness ==
    /\ MkvoleOk
    /\ Len(Unwrap(mkvole_result).val.consistency_check[1]) = CodeK(prover.code)
    /\ Len(Unwrap(mkvole_result).val.consistency_check[2]) = prover.num_voles
    /\ CodeK(prover.code) # prover.num_voles
    /\ \E j \in 1 .. CodeK(prover.code) :
           /\ Unwrap(mkvole_result).val.consistency_check[1][j] # 0
           /\ Unwrap(mkvole_result).val.consistency_check[1][j]
                  # Unwrap(mkvole_result).val.consistency_check[2][j]

\* C23 as stated: the witness_comm of the commitment returned by mkvole has
\* exactly vole_length / 2 rows, each of k elements.
C23_WitnessCommHalfLength ==
    MkvoleOk =>
        LET wc == Unwrap(mkvole_result).val.witness_comm
        IN  /\ Len(wc) = prover.vole_length \div 2
            /\ \A i \in 1 .. Len(wc) : Len(wc[i]) = CodeK(prover.code)

\* C23: the witness_comm of the commitment returned by mkvole has exactly
\* vole_length / 2 - 1 rows, one per row of the padded witness, each of k
\* elements: row i is witness row i minus row i of U.
C23_WitnessCommWitnessRows ==
    MkvoleOk =>
        LET wc == Unwrap(mkvole_result).val.witness_comm
        IN  /\ Len(wc) = (prover.vole_length \div 2) - 1
            /\ Len(wc) = Len(prover.witness)
            /\ prover.witness_comm = Some(wc)
            /\ \A i \in 1 .. Len(wc) :
                   /\ Len(wc[i]) = CodeK(prover.code)
                   /\ \A j \in 1 .. CodeK(prover.code) :
                          wc[i][j] = FSub(prover.witness[i][j], SecretURows[i][j])

C23_Witness ==
    /\ MkvoleOk
    /\ Len(Unwrap(mkvole_result).val.witness_comm) = Len(prover.witness)
    /\ Len(Unwrap(mkvole_result).val.witness_comm) > 1
    /\ Len(Unwrap(mkvole_result).val.witness_comm) < prover.vole_length \div 2
    /\ Unwrap(mkvole_result).val.witness_comm # prover.witness

(***************************************************************************)
(* R1CS file conversion (src/circom/r1cs.rs)                               *)
(***************************************************************************)
RECURSIVE Pow2(_)
Pow2(bits) == IF bits = 0 THEN 1 ELSE 2 * Pow2(bits - 1)

\* a + b on usize, which has twice the bits of a u32 header field: a sum that
\* overflows panics in a build with overflow checks and wraps otherwise.
usize_add(a, b) == (a + b) % Pow2(2 * HeaderBits)

\* (from..to).collect_vec()
collect_range(from, to) ==
    Collect([i \in 1 .. (IF to > from THEN to - from ELSE 0) |-> from + i - 1])

\* Faulty variant of to_crate_format: the public outputs start at wire 0.
to_crate_format_from_zero(file) ==
    LET pub_in_start == usize_add(0, file.header.n_pub_out)
    IN  [a_rows |-> file.constraints.a_rows,
         b_rows |-> file.constraints.b_rows,
         c_rows |-> file.constraints.c_rows,
         public_inputs_indices |->
             collect_range(pub_in_start, usize_add(pub_in_start, file.header.n_pub_in)),
         public_outputs_indices |-> collect_range(0, pub_in_start),
         unpadded_wtns_len |-> file.header.n_wires]

\* R1CSFile::to_crate_format overflows usize.
to_crate_format_aborts(file) ==
    \/ 1 + file.header.n_pub_out >= Pow2(2 * HeaderBits)
    \/ usize_add(1, file.header.n_pub_out) + file.header.n_pub_in >= Pow2(2 * HeaderBits)

\* R1CSFile::to_crate_format
to_crate_format(file) ==
    LET pub_in_start == usize_add(1, file.header.n_pub_out)
    IN  [a_rows |-> file.constraints.a_rows,
         b_rows |-> file.constraints.b_rows,
         c_rows |-> file.constraints.c_rows,
         public_inputs_indices |->
             collect_range(pub_in_start, usize_add(pub_in_start, file.header.n_pub_in)),
         public_outputs_indices |-> collect_range(1, pub_in_start),
         unpadded_wtns_len |-> file.header.n_wires]

\* A parsed file: any header counts, with the constraints of the test circuit.
R1csInit ==
    /\ ProtocolIdle
    /\ \E n_wires \in 0 .. (Pow2(HeaderBits) - 1),
          n_pub_out \in 0 .. (Pow2(HeaderBits) - 1),
          n_pub_in \in 0 .. (Pow2(HeaderBits) - 1) :
           bench = [unit |-> "r1cs",
                    file |-> [header |-> [n_wires |-> n_wires, n_pub_out |-> n_pub_out,
                                          n_pub_in |-> n_pub_in],
                              constraints |-> [a_rows |-> TestCircuit.a_rows,
                                               b_rows |-> TestCircuit.b_rows,
                                               c_rows |-> TestCircuit.c_rows]],
                    converted |-> None]

\* r1cs.to_crate_format(); with overflow checks an overflow panics, without
\* them the sums wrap.
R1csToCrateFormat ==
    /\ bench.converted = None
    /\ \E overflow_checks \in BOOLEAN :
           bench' = [bench EXCEPT !.converted =
                        IF overflow_checks /\ to_crate_format_aborts(bench.file)
                        THEN Some([aborted |-> TRUE])
                        ELSE Some([aborted |-> FALSE,
                                   r1cs |-> to_crate_format(bench.file)])]
    /\ UNCHANGED protocol_vars

SpecR1cs ==
    R1csInit /\ [][R1csToCrateFormat]_vars

SeededCodes ==
    {[permutations |-> Collect([i \in 1 .. 3 |->
                                   random_interleave_permutations(NUM_VOLES, seeds[i])]),
      q |-> q] : seeds \in Seeds \X Seeds \X Seeds, q \in RepetitionFactors}

ConsistencyInit ==
    /\ ProtocolIdle
    /\ \E code \in SeededCodes, seed \in Seeds :
           bench = [unit |-> "consistency", code |-> code,
                    u_rows |-> RandomMatrix(seed, MaxRows, CodeN(code)),
                    v_rows |-> RandomMatrix(seed + 1, MaxRows, CodeN(code)),
                    challenge_hash |-> challenge_from_seed(seed + 2, MaxRows),
                    prover |-> None, verifier |-> None]

\* (new_u_rows, correction) = code.get_prover_correction(&u_rows);
\* consistency_check = calc_consistency_check(&challenge_hash,
\*     &new_u_rows.transpose(), &v_rows.transpose())
ConsistencyProver ==
    /\ bench.prover = None
    /\ LET out == get_prover_correction(bench.code, bench.u_rows)
           new_u_rows == Collect(out[1])
       IN  bench' = [bench EXCEPT !.prover =
                        Some([new_us |-> new_u_rows, correction |-> Collect(out[2]),
                              consistency_check |->
                                  calc_consistency_check(bench.challenge_hash,
                                                         transpose(new_u_rows),
                                                         transpose(bench.v_rows))])]
    /\ UNCHANGED protocol_vars

\* new_q_rows = code.correct_verifier_qs(&q_rows, &deltas, &subspace_vole_correction);
\* code.verify_consistency_check(&challenge_hash, &consistency_check, &deltas,
\*     &new_q_rows.transpose())
ConsistencyVerifier ==
    /\ IsSome(bench.prover)
    /\ bench.verifier = None
    /\ \E deltas \in [1 .. CodeN(bench.code) -> {0, 1}] :
           LET q_rows == Collect([i \in 1 .. Len(bench.u_rows) |->
                                     VAdd(VMul(bench.u_rows[i], deltas), bench.v_rows[i])])
               new_q_rows == correct_verifier_qs(bench.code, q_rows, deltas,
                                                 Unwrap(bench.prover).correction)
           IN  bench' = [bench EXCEPT !.verifier =
                            Some([deltas |-> deltas, new_q_rows |-> new_q_rows,
                                  verified |->
                                      verify_consistency_check(
                                          bench.code, bench.challenge_hash,
                                          Unwrap(bench.prover).consistency_check,
                                          deltas, transpose(new_q_rows))])]
    /\ UNCHANGED protocol_vars

SpecConsistency ==
    ConsistencyInit /\ [][ConsistencyProver \/ ConsistencyVerifier]_vars

\* C25: for every challenge vector h, rows U' and V and delta of bits with
\* Q = U' * diag(delta) + V, with (U, C) = get_prover_correction(U'),
\* Q' = correct_verifier_qs(Q, delta, C) and check = calc_consistency_check(h,
\* columns of U, columns of V), verify_consistency_check(h, check, delta,
\* columns of Q') returns Ok.
C25_HonestConsistencyCheckPasses ==
    IsSome(bench.verifier) => Unwrap(bench.verifier).verified.ok

\* A run with a non-zero challenge, a non-zero U hash, a delta with both bits
\* and a correction that changed Q.
C25_Witness ==
    /\ IsSome(bench.verifier)
    /\ bench.code.q = DefaultQ
    /\ Unwrap(bench.verifier).verified.ok
    /\ \A i \in 1 .. Len(bench.challenge_hash) : bench.challenge_hash[i] # 0
    /\ \E j \in 1 .. CodeK(bench.code) :
           Unwrap(bench.prover).consistency_check[1][j] # 0
    /\ \E i, j \in 1 .. CodeN(bench.code) :
           /\ Unwrap(bench.verifier).deltas[i] = 0
           /\ Unwrap(bench.verifier).deltas[j] = 1
    /\ \E i \in 1 .. Len(bench.u_rows) :
           Unwrap(bench.verifier).new_q_rows[i] #
               VAdd(VMul(bench.u_rows[i], Unwrap(bench.verifier).deltas), bench.v_rows[i])

(***************************************************************************)
(* S matrix check of an honest run under test: the prover corrects rows U' *)
(* expanded from a seed and stores the halves of U and V as mkvole does;   *)
(* the verifier holds Q = U' * diag(delta) + V for a delta of bits and     *)
(* corrects it; the prover answers vith_delta and the S challenge with     *)
(* s_matrix_with_consistency_proof and the verifier compares as            *)
(* Verifier::verify does.                                                  *)
(***************************************************************************)
SMatrixInit ==
    /\ ProtocolIdle
    /\ \E code \in {c \in SeededCodes : c.q = DefaultQ}, seed \in Seeds :
           bench = [unit |-> "s_matrix", code |-> code, vole_length |-> 2 * MaxRows,
                    u_rows |-> RandomMatrix(seed, 2 * MaxRows, CodeN(code)),
                    v_rows |-> RandomMatrix(seed + 1, 2 * MaxRows, CodeN(code)),
                    s_challenge |-> challenge_from_seed(seed + 2, MaxRows),
                    svs |-> None, correction |-> None, verifier |-> None,
                    proof |-> None, checked |-> None]

\* Prover::mkvole: the correction and the halves of the secrets.
SMatrixMkvole ==
    /\ bench.svs = None
    /\ LET out == get_prover_correction(bench.code, bench.u_rows)
           new_u_rows == Collect(out[1])
           u_len == Len(new_u_rows)
           v_len == Len(bench.v_rows)
       IN  bench' = [bench EXCEPT
                        !.correction = Some(Collect(out[2])),
                        !.svs = Some([u1 |-> Slice(new_u_rows, 0, u_len \div 2),
                                      u2 |-> Slice(new_u_rows, u_len \div 2, u_len),
                                      v1 |-> Slice(bench.v_rows, 0, v_len \div 2),
                                      v2 |-> Slice(bench.v_rows, v_len \div 2, v_len)])]
    /\ UNCHANGED protocol_vars

\* Verifier::verify: the corrected Q rows for the verifier's deltas.
SMatrixCorrect ==
    /\ IsSome(bench.svs)
    /\ bench.verifier = None
    /\ \E deltas \in [1 .. CodeN(bench.code) -> {0, 1}] :
           LET q_rows == Collect([i \in 1 .. Len(bench.u_rows) |->
                                     VAdd(VMul(bench.u_rows[i], deltas), bench.v_rows[i])])
           IN  bench' = [bench EXCEPT !.verifier =
                            Some([deltas |-> deltas,
                                  new_q_rows |->
                                      correct_verifier_qs(bench.code, q_rows, deltas,
                                                          Unwrap(bench.correction))])]
    /\ UNCHANGED protocol_vars

\* Prover::prove: (s_matrix, s_consistency_check) for the challenges.
SMatrixProve ==
    /\ IsSome(bench.verifier)
    /\ bench.proof = None
    /\ \E vith_delta \in F :
           LET sm == s_matrix_with_consistency_proof(Unwrap(bench.svs), vith_delta,
                                                     bench.s_challenge)
           IN  bench' = [bench EXCEPT !.proof =
                            Some([vith_delta |-> vith_delta, s_matrix |-> sm[1],
                                  s_consistency_check |-> sm[2]])]
    /\ UNCHANGED protocol_vars

\* Verifier::verify: both sides of the S matrix comparison and its outcome.
SMatrixVerify ==
    /\ IsSome(bench.proof)
    /\ bench.checked = None
    /\ LET proof == Unwrap(bench.proof)
           deltas == Unwrap(bench.verifier).deltas
           new_q_rows == Unwrap(bench.verifier).new_q_rows
           half_len == bench.vole_length \div 2
           q1 == Slice(new_q_rows, 0, half_len)
           q2 == Slice(new_q_rows, half_len, bench.vole_length)
           encoded == batch_encode(bench.code, proof.s_matrix)
           sgc_diag_delta == Collect([i \in 1 .. Len(encoded) |-> VMul(encoded[i], deltas)])
       IN  \E lhs \in {VecMulMatrix(bench.s_challenge,
                                     transpose(MAdd(MScalarMul(q1, proof.vith_delta),
                                                    q2)))},
              rhs \in {VAdd(proof.s_consistency_check,
                            VecMulMatrix(bench.s_challenge,
                                         transpose(sgc_diag_delta)))} :
               bench' = [bench EXCEPT !.checked =
                        Some([lhs |-> lhs, rhs |-> rhs,
                              failed |-> ~FVecEq(lhs, rhs)])]
    /\ UNCHANGED protocol_vars

SpecSMatrix ==
    SMatrixInit
        /\ [][SMatrixMkvole
               \/ SMatrixCorrect
               \/ SMatrixProve
               \/ SMatrixVerify]_vars

\* C26: for every vith_delta, S challenge chi of length vole_length / 2 and
\* delta of bits, with S = vith_delta * u1 + u2 and
\* s_check = chi * (vith_delta * v1 + v2)^T of the prover's corrected subspace
\* VOLE and q1, q2 the halves of the verifier's corrected Q rows,
\* chi * (vith_delta * q1 + q2)^T = s_check + chi * (the rows of
\* batch_encode(S) times delta)^T, and the verifier's comparison does not fail.
C26_HonestSMatrixCheckPasses ==
    IsSome(bench.checked) =>
        /\ Unwrap(bench.checked).lhs = Unwrap(bench.checked).rhs
        /\ Len(Unwrap(bench.checked).lhs) = CodeN(bench.code)
        /\ ~Unwrap(bench.checked).failed

\* A run with a vith_delta above 1, a non-zero challenge, a delta with both
\* bits and a non-zero S consistency value that differs from the left side.
C26_Witness ==
    /\ IsSome(bench.checked)
    /\ bench.code.q = DefaultQ
    /\ Unwrap(bench.proof).vith_delta > 1
    /\ \A i \in 1 .. Len(bench.s_challenge) : bench.s_challenge[i] # 0
    /\ \E i, j \in 1 .. CodeN(bench.code) :
           /\ Unwrap(bench.verifier).deltas[i] = 0
           /\ Unwrap(bench.verifier).deltas[j] = 1
    /\ Unwrap(bench.proof).s_consistency_check # Unwrap(bench.checked).lhs
    /\ \E j \in 1 .. CodeN(bench.code) : Unwrap(bench.proof).s_consistency_check[j] # 0
    /\ Unwrap(bench.checked).lhs = Unwrap(bench.checked).rhs

(***************************************************************************)
(* Permutation generation under test (test_permutation_and_inverse): a     *)
(* length of the u32 range and a vector of that length sampled from a      *)
(* seed; the permutations are generated from a seed or from the thread     *)
(* generator, the vector is interleaved with forward and then with         *)
(* backward.                                                               *)
(***************************************************************************)
\* (1..len + 1) in u32: with overflow checks the addition panics; without
\* them it wraps to 0, no index is drawn and remove_indices[0] panics.
random_interleave_permutations_aborts(len) == len + 1 >= Pow2(LenBits)

\* avail_indices.remove(remove_indices[i]) panics unless the index is below
\* the number of indices still available.
RemovalsInRange(remove_indices) ==
    \A i \in 0 .. (Len(remove_indices) - 1) :
        remove_indices[i + 1] < Len(remove_indices) - i

\* p is a bijection on 0 .. len - 1, written as the sequence of its images.
IsPermutation(p, len) ==
    /\ Len(p) = len
    /\ \A i \in 1 .. len : p[i] \in 0 .. (len - 1)
    /\ \A i, j \in 1 .. len : i # j => p[i] # p[j]

PermutationInit ==
    /\ ProtocolIdle
    /\ \E len \in 1 .. (Pow2(LenBits) - 1), seed \in Seeds :
           bench = [unit |-> "permutation", len |-> len,
                    input |-> expand_seed_to_field_vec(seed + 1, len),
                    generated |-> None, permuted |-> None, inverse_permuted |-> None]

\* RAAACode::random_interleave_permutations(len, seed) for a seed or None.
PermutationGenerate ==
    /\ bench.generated = None
    /\ \E seed \in {None} \cup {Some(x) : x \in Seeds} :
           IF random_interleave_permutations_aborts(bench.len)
           THEN bench' = [bench EXCEPT !.generated = Some([aborted |-> TRUE])]
           ELSE \E draws \in IF IsSome(seed)
                              THEN {[i \in 1 .. bench.len |-> gen_range(Unwrap(seed), i)]}
                              ELSE ThreadRngDraws(bench.len) :
                    LET out == IF IsSome(seed)
                               THEN random_interleave_permutations(bench.len, Unwrap(seed))
                               ELSE random_interleave_permutations_none(bench.len, draws)
                    IN  bench' = [bench EXCEPT !.generated =
                                     Some([aborted |-> FALSE, seed |-> seed,
                                           remove_indices |->
                                               Collect([i \in 1 .. bench.len |->
                                                           draws[bench.len + 1 - i]]),
                                           forward |-> Collect(out[1]),
                                           backward |-> Collect(out[2])])]
    /\ UNCHANGED protocol_vars

\* permuted = RAAACode::interleave(&input, &forward)
PermutationInterleave ==
    /\ IsSome(bench.generated)
    /\ ~Unwrap(bench.generated).aborted
    /\ bench.permuted = None
    /\ bench' = [bench EXCEPT !.permuted =
                     Some(interleave(bench.input, Unwrap(bench.generated).forward))]
    /\ UNCHANGED protocol_vars

\* inverse_permuted = RAAACode::interleave(&permuted, &backward)
PermutationInterleaveBack ==
    /\ IsSome(bench.permuted)
    /\ bench.inverse_permuted = None
    /\ bench' = [bench EXCEPT !.inverse_permuted =
                     Some(interleave(Unwrap(bench.permuted),
                                     Unwrap(bench.generated).backward))]
    /\ UNCHANGED protocol_vars

SpecPermutation ==
    PermutationInit
        /\ [][PermutationGenerate
               \/ PermutationInterleave
               \/ PermutationInterleaveBack]_vars

\* The generated pair: only in-range indices were removed, forward is a
\* bijection on 0 .. len - 1, backward is its inverse, and interleaving with
\* forward and then with backward gives the input back.
GeneratedPairIsInverse ==
    LET g == Unwrap(bench.generated)
    IN  /\ RemovalsInRange(g.remove_indices)
        /\ IsPermutation(g.forward, bench.len)
        /\ IsPermutation(g.backward, bench.len)
        /\ \A i \in 1 .. bench.len :
               /\ g.backward[g.forward[i] + 1] = i - 1
               /\ g.forward[g.backward[i] + 1] = i - 1
        /\ IsSome(bench.permuted) =>
               /\ Len(Unwrap(bench.permuted)) = bench.len
               /\ \A i \in 1 .. bench.len :
                      Unwrap(bench.permuted)[g.forward[i] + 1] = bench.input[i]
        /\ IsSome(bench.inverse_permuted) => Unwrap(bench.inverse_permuted) = bench.input

\* C27 as stated: for every len >= 1 and every outcome of the generator,
\* random_interleave_permutations returns (forward, backward), removes only
\* in-range indices, forward is a bijection on 0 .. len - 1, backward is its
\* inverse and interleave(interleave(x, forward), backward) = x.
C27_PermutationsForEveryLength ==
    IsSome(bench.generated) =>
        /\ ~Unwrap(bench.generated).aborted
        /\ GeneratedPairIsInverse

\* C27, amended: the same for every len >= 1 below the largest u32; for the
\* largest u32 the call returns nothing.
C27_PermutationsBelowLargestLength ==
    IsSome(bench.generated) =>
        /\ Unwrap(bench.generated).aborted <=> bench.len = Pow2(LenBits) - 1
        /\ ~Unwrap(bench.generated).aborted => GeneratedPairIsInverse

\* A round trip at the largest length that returns, with draws of the thread
\* generator, a forward permutation that is not its own inverse and a vector
\* that the permutation changes.
C27_Witness ==
    /\ IsSome(bench.inverse_permuted)
    /\ bench.len = Pow2(LenBits) - 2
    /\ Unwrap(bench.generated).seed = None
    /\ Unwrap(bench.generated).forward # Unwrap(bench.generated).backward
    /\ Unwrap(bench.permuted) # bench.input
    /\ Unwrap(bench.inverse_permuted) = bench.input

(***************************************************************************)
(* Equality of dense vectors and matrices under test: two vectors and two  *)
(* matrices, each sampled from a seed with its own number of elements and  *)
(* rows, are compared with ==.                                             *)
(***************************************************************************)
EqualityInit ==
    /\ ProtocolIdle
    /\ \E seed_a \in Seeds, seed_b \in Seeds,
          len_a \in 0 .. MaxRows, len_b \in 0 .. MaxRows,
          rows_a \in 0 .. MaxRows, rows_b \in 0 .. MaxRows :
           bench = [unit |-> "equality",
                    vec_a |-> expand_seed_to_field_vec(seed_a, len_a),
                    vec_b |-> expand_seed_to_field_vec(seed_b, len_b),
                    matrix_a |-> RandomMatrix(seed_a, rows_a, len_a),
                    matrix_b |-> RandomMatrix(seed_b, rows_b, len_b),
                    vec_eq |-> None, matrix_eq |-> None]

\* vec_a == vec_b
EqualityFVec ==
    /\ bench.vec_eq = None
    /\ bench' = [bench EXCEPT !.vec_eq = Some(FVecEq(bench.vec_a, bench.vec_b))]
    /\ UNCHANGED protocol_vars

\* matrix_a == matrix_b
EqualityFMatrix ==
    /\ bench.matrix_eq = None
    /\ bench' = [bench EXCEPT !.matrix_eq =
                     Some(FMatrixEq(bench.matrix_a, bench.matrix_b))]
    /\ UNCHANGED protocol_vars

SpecEquality ==
    EqualityInit /\ [][EqualityFVec \/ EqualityFMatrix]_vars

\* C28: a == b holds for FVec values only if they have the same number of
\* elements and agree at every index, and for FMatrix values only if they
\* have the same number of rows and equal rows.
C28_EqualityIsExact ==
    /\ (IsSome(bench.vec_eq) /\ Unwrap(bench.vec_eq)) =>
           /\ Len(bench.vec_a) = Len(bench.vec_b)
           /\ \A i \in 1 .. Len(bench.vec_a) : bench.vec_a[i] = bench.vec_b[i]
    /\ (IsSome(bench.matrix_eq) /\ Unwrap(bench.matrix_eq)) =>
           /\ Len(bench.matrix_a) = Len(bench.matrix_b)
           /\ \A i \in 1 .. Len(bench.matrix_a) : bench.matrix_a[i] = bench.matrix_b[i]

(***************************************************************************)
(* The commitment state of a prover under any sequence of mkvole and prove *)
(* calls: the fields of Prover are public, so a caller can build a prover  *)
(* with a vole_length of their own before the first call; mkvole returns   *)
(* Err for an odd vole_length.                                             *)
(***************************************************************************)
ProverStateInit ==
    /\ ProtocolIdle
    /\ bench = NoBench

\* prover.vole_length = vole_length, assigned by the caller before the first
\* call: the length of the constructor or the odd length below it.
ProverAssignVoleLength ==
    /\ mkvole_calls = 0
    /\ prove_result = None
    /\ \E vole_length \in {2 * (Len(prover.witness) + 1) - d : d \in 0 .. 1}
                          \ {prover.vole_length} :
           prover' = [prover EXCEPT !.vole_length = vole_length]
    /\ UNCHANGED << verifier, mutated_at, ro_consistency, ro_quicksilver, ro_other,
                    mkvole_calls, mkvole_result, prove_result, prove_digests,
                    prove_current, tamper, cnp, verify_digests, verify_result,
                    verify_calls, verify_aborted, bench >>

\* prover.mkvole(), any number of times up to MaxMkvoleCalls.
ProverMkvole ==
    /\ mkvole_calls < MaxMkvoleCalls
    /\ \E r \in 0 .. (MaxRng - 1) :
        LET seeds == ThreadRngSeeds(r, prover.num_voles)
            transcript == ConsistencyTranscript(SeedCommOf(seeds))
        IN  \E digest \in Answers(ro_consistency, transcript) :
                LET out == mkvole(prover, seeds, digest)
                IN  /\ prover' = out.prover
                    /\ mkvole_result' = Some(out.result)
                    /\ ro_consistency' = Record(ro_consistency, transcript, digest)
    /\ mkvole_calls' = mkvole_calls + 1
    /\ prove_current' = FALSE
    /\ UNCHANGED << verifier, mutated_at, ro_quicksilver, ro_other, prove_result,
                    prove_digests, tamper, cnp, verify_digests, verify_result,
                    verify_calls, verify_aborted, bench >>

SpecProverState ==
    ProverStateInit /\ [][ProverAssignVoleLength \/ ProverMkvole \/ Prove]_vars

\* The three fields were set by one mkvole call: the seed commitment commits
\* to the seeds of the secrets and the witness commitment is the witness
\* minus the first rows of the U of the secrets.
FromOneMkvole(p) ==
    LET svs == Unwrap(p.subspace_vole_secrets)
    IN  /\ Unwrap(p.seed_commitment) = SeedCommOf(svs.seeds)
        /\ Unwrap(p.witness_comm) =
               MSub(p.witness, Slice(svs.u1 \o svs.u2, 0, Len(p.witness)))

IsLinear(images, len) ==
    /\ Len(images.a) = len
    /\ Len(images.b) = len
    /\ images.sum = VAdd(images.a, images.b)
    /\ \A c \in F : images.scaled[c] = scalar_mul(images.a, c)

LinearInit ==
    /\ ProtocolIdle
    /\ \E code \in SeededCodes, seed_a \in Seeds, seed_b \in Seeds :
           bench = [unit |-> "linear", code |-> code,
                    a |-> expand_seed_to_field_vec(seed_a, CodeN(code)),
                    b |-> expand_seed_to_field_vec(seed_b + 1, CodeN(code)),
                    encoded |-> None, extended |-> None, inverted |-> None]

\* code.encode on vectors of k elements
LinearEncode ==
    /\ bench.encoded = None
    /\ LET a == Slice(bench.a, 0, CodeK(bench.code))
           b == Slice(bench.b, 0, CodeK(bench.code))
       IN  bench' = [bench EXCEPT !.encoded =
                      Some([a |-> encode(bench.code, a),
                           b |-> encode(bench.code, b),
                           sum |-> encode(bench.code, VAdd(a, b)),
                           scaled |-> [c \in F |->
                                          encode(bench.code, scalar_mul(a, c))]])]
    /\ UNCHANGED protocol_vars

\* code.encode_extended on vectors of n elements
LinearEncodeExtended ==
    /\ IsSome(bench.encoded)
    /\ bench.extended = None
    /\ bench' = [bench EXCEPT !.extended =
                      Some([a |-> encode_extended(bench.code, bench.a),
                           b |-> encode_extended(bench.code, bench.b),
                           sum |-> encode_extended(bench.code, VAdd(bench.a, bench.b)),
                           scaled |-> [c \in F |->
                                          encode_extended(bench.code, scalar_mul(bench.a, c))]])]
    /\ UNCHANGED protocol_vars

\* code.mul_vec_by_extended_inverse on vectors of n elements
LinearInverse ==
    /\ IsSome(bench.extended)
    /\ bench.inverted = None
    /\ bench' = [bench EXCEPT !.inverted =
                      Some([a |-> mul_vec_by_extended_inverse(bench.code, bench.a),
                           b |-> mul_vec_by_extended_inverse(bench.code, bench.b),
                           sum |-> mul_vec_by_extended_inverse(bench.code, VAdd(bench.a, bench.b)),
                           scaled |-> [c \in F |->
                                          mul_vec_by_extended_inverse(bench.code, scalar_mul(bench.a, c))]])]
    /\ UNCHANGED protocol_vars

SpecLinear ==
    LinearInit /\ [][LinearEncode \/ LinearEncodeExtended \/ LinearInverse]_vars

\* C30: for every code, vectors a and b of the right length and scalar c,
\* encode(a + b) = encode(a) + encode(b) and encode(c * a) = c * encode(a),
\* and the same for encode_extended and mul_vec_by_extended_inverse.
C30_EncodersAreLinear ==
    /\ IsSome(bench.encoded) => IsLinear(Unwrap(bench.encoded), CodeN(bench.code))
    /\ IsSome(bench.extended) => IsLinear(Unwrap(bench.extended), CodeN(bench.code))
    /\ IsSome(bench.inverted) => IsLinear(Unwrap(bench.inverted), CodeN(bench.code))

\* A code of the default repetition factor that moves entries, with a and b
\* different and non-zero in their first k elements, whose three images of
\* a + b differ from those of a.
C30_Witness ==
    /\ IsSome(bench.inverted)
    /\ bench.code.q = DefaultQ
    /\ ~IsIdentity(bench.code.permutations[1][1])
    /\ Slice(bench.a, 0, CodeK(bench.code)) # Slice(bench.b, 0, CodeK(bench.code))
    /\ \E i \in 1 .. CodeK(bench.code) : bench.a[i] # 0
    /\ Unwrap(bench.encoded).sum # Unwrap(bench.encoded).a
    /\ Unwrap(bench.extended).sum # Unwrap(bench.extended).a
    /\ Unwrap(bench.inverted).sum # Unwrap(bench.inverted).a
    /\ Unwrap(bench.encoded).scaled[2] # Unwrap(bench.encoded).a

====
